---- MODULE Spec2Model ----
(***************************************************************************)
(* A model of ashby (probe-lab/ashby): the tabular dataset and its derive  *)
(* operation, the trace generator's passes over the dataset registry, and  *)
(* the organizer that places artifacts in the dated hierarchy.             *)
(*                                                                         *)
(* The module holds several specifications over one set of variables; the  *)
(* variables of the parts a specification does not exercise stay at their  *)
(* initial values:                                                         *)
(*   SpecDiff  the diff predicate applied to one pair of operands          *)
(*   SpecPath  Organizer.Filename applied to two basis times               *)
(*   SpecData  one GetDataSet call and its dataset under cursor calls      *)
(*   Spec      generateFig: fetch, derive, series pass, scalar pass        *)
(*   SpecOrg   interleaved workers of batch runs on one file tree          *)
(*   SpecRun   one worker of a batch, step by step, with another writer    *)
(*   SpecSeries seriesTraces over a registry of datasets                   *)
(*   SpecFig   generateFig with computed datasets, scalars and tables      *)
(*   SpecPg    concurrent GetDataSet calls on one PgDataSource             *)
(*   SpecBatch the errgroup of processPlotDefs and its tasks               *)
(*   SpecBeat  the heartbeat goroutine of one plot generation              *)
(***************************************************************************)
EXTENDS Integers, Sequences, FiniteSets, TLC

VARIABLES
    px, py, pres,                       \* SpecDiff: operands and result of diff2
    ft1, ft2, ffreq, fname1, fname2,    \* SpecPath: basis times, frequency, paths
    files,      \* SpecOrg: the file tree, path -> [data, mtime]
    now,        \* SpecOrg: the wall clock that stamps modification times
    defMtime,   \* SpecOrg: modification time of the plot definition file
    ofreq,      \* SpecOrg: the frequency of the plot definitions
    runs,       \* SpecOrg: number of batch runs started
    crashed,    \* SpecOrg: some WritePlot call did not complete (died or failed)
    orecent,    \* SpecOrg: per plot name, how its most recent runs ended
    oworkers,   \* SpecOrg: the workers in flight, run number -> [name, t, repair, pc]
    dset,       \* SpecData: the dataset, [data, cursor]
    queries,    \* SpecData: times the source executed the query
    qpc,        \* SpecData: where the call of GetDataSet is
    obs,        \* SpecData: rows observed since the last rewind
    fromStart,  \* SpecData: the scan under way began at the first row
    lastFull,   \* SpecData: what the last completed full scan observed
    prevFull,   \* SpecData: what the full scan before that one observed
    lastField,  \* SpecData: the value the last Field call returned
    srcRows,    \* Spec: the rows each source query returns, by dataset name
    pd,         \* Spec: the plot definition: computed, series, scalar
    dataSets,   \* Spec: the registry of generateFig, name -> dataset
    gpc,        \* Spec: the step generateFig is at
    gerr,       \* Spec: generateFig returned an error
    gcancel,    \* Spec: the context of the generation is cancelled
    seriesOut,  \* Spec: the values of the series trace
    scalarOut,  \* Spec: the value of the scalar trace, if one was emitted
    rname,      \* SpecRun: the plot name of the definition file
    rtime,      \* SpecRun: the basis time of the batch
    rforce,     \* SpecRun: the force flag
    rvalidate,  \* SpecRun: the validate flag
    rfig,       \* SpecRun: what generateFig returns if it is called
    rqueried,   \* SpecRun: generateFig was called (its sources were queried)
    rpc,        \* SpecRun: the step the worker is at, "ready" to "done"
    rbefore,    \* SpecRun: the tree the Lstat of the worker saw
    rwrote,     \* SpecRun: what the worker wrote, path -> data
    rlstat,     \* SpecRun: how the Lstat of the staleness check ended
    rret,       \* SpecRun: what the worker returned, "none" before it returns
    rother,     \* SpecRun: the WritePlot call of another worker, [pc, t]
    sdefs,      \* SpecSeries: pd.Series, the series definitions in order
    sreg,       \* SpecSeries: the dataset registry
    straces,    \* SpecSeries: the traces seriesTraces returned
    spc,        \* SpecSeries: "ready", "scanned" (a pass read a dataset), "done"
    fsrc,       \* SpecFig: what each source query returns, [rows, err] by name
    fdef,       \* SpecFig: the plot definition
    freg,       \* SpecFig: the dataset registry of generateFig
    fpc,        \* SpecFig: the step generateFig is at
    fresult,    \* SpecFig: "running", "ok", "error", "cancelled" or "panic"
    fnext,      \* SpecFig: the iteration the loop under way is at
    fcancel,    \* SpecFig: the context of the generation is cancelled
    ftraces,    \* SpecFig: the traces appended to the figure, by pass
    ppool,      \* SpecPg: p.pool, "nil" or "pool"
    perr,       \* SpecPg: p.err, "nil" or the error stored
    ponce,      \* SpecPg: p.poolOnce, "new", "running" or "done"
    pinits,     \* SpecPg: how many times the pool initialisation ran
    cpc,        \* SpecPg: where each call of GetDataSet is
    cret,       \* SpecPg: what each call returned, "none" before it returns
    cacq,       \* SpecPg: whether each call has called p.pool.Acquire
    bconc,      \* SpecBatch: the --concurrency flag
    bvalidate,  \* SpecBatch: the --validate flag
    bforce,     \* SpecBatch: the --force flag
    bmain,      \* SpecBatch: the main goroutine: "go", "wait" or "returned"
    bnext,      \* SpecBatch: the file the loop starts next
    bret,       \* SpecBatch: what processPlotDefs returned, "none" before
    berr,       \* SpecBatch: the error the errgroup keeps
    bcancel,    \* SpecBatch: the group's context is cancelled
    bfails,     \* SpecBatch: the files whose tasks failed, in that order
    wpc,        \* SpecBatch: where each task is
    wres,       \* SpecBatch: how each task returned, "none" before
    wstat,      \* SpecBatch: what Lstat found for each task
    wleft,      \* SpecBatch: the checkpoints each generation has before it
    wdone,      \* SpecBatch: the fetches and derives each generation made
    wwrote,     \* SpecBatch: whether each task wrote its dated artifact
    hgen,       \* SpecBeat: the worker around generateFig
    hout,       \* SpecBeat: how generateFig returns
    hclosed,    \* SpecBeat: how many times done was closed
    hpc,        \* SpecBeat: the heartbeat goroutine
    htick,      \* SpecBeat: a tick waits in t.C
    hticks,     \* SpecBeat: the ticks the ticker fired
    hlogs       \* SpecBeat: the progress messages logged

diffVars == <<px, py, pres>>
pathVars == <<ft1, ft2, ffreq, fname1, fname2>>
orgVars == <<files, now, defMtime, ofreq, runs, crashed, orecent, oworkers>>
dataVars == <<dset, queries, qpc, obs, fromStart, lastFull, prevFull, lastField>>
genVars == <<srcRows, pd, dataSets, gpc, gerr, seriesOut, scalarOut, gcancel>>
runVars == <<rname, rtime, rforce, rvalidate, rfig, rqueried, rpc, rbefore, rwrote,
             rlstat, rret, rother>>
baseVars == <<diffVars, pathVars, orgVars, dataVars, genVars>>
seriesVars == <<sdefs, sreg, straces, spc>>
figVars == <<fsrc, fdef, freg, fpc, fresult, ftraces, fnext, fcancel>>
pgVars == <<ppool, perr, ponce, pinits, cpc, cret, cacq>>
batchVars == <<bconc, bvalidate, bforce, bmain, bnext, bret, berr, bcancel,
               bfails, wpc, wres, wstat, wleft, wdone, wwrote>>
beatVars == <<hgen, hout, hclosed, hpc, htick, hticks, hlogs>>
extraVars == <<runVars, seriesVars, figVars, pgVars, batchVars, beatVars>>
vars == <<px, py, pres, ft1, ft2, ffreq, fname1, fname2,
          files, now, defMtime, ofreq, runs, crashed, orecent, oworkers,
          dset, queries, qpc, obs, fromStart, lastFull, prevFull, lastField,
          srcRows, pd, dataSets, gpc, gerr, seriesOut, scalarOut, gcancel,
          rname, rtime, rforce, rvalidate, rfig, rqueried, rpc, rbefore, rwrote,
          rlstat, rret, rother,
          sdefs, sreg, straces, spc,
          fsrc, fdef, freg, fpc, fresult, ftraces, fnext, fcancel,
          ppool, perr, ponce, pinits, cpc, cret, cacq,
          bconc, bvalidate, bforce, bmain, bnext, bret, berr, bcancel,
          bfails, wpc, wres, wstat, wleft, wdone, wwrote,
          hgen, hout, hclosed, hpc, htick, hticks, hlogs>>

(***************************************************************************)
(* Field values.  A Go value of dynamic type is a record of its type tag   *)
(* t, its number n (numeric types) and its text s (strings, errors).       *)
(* float64 values are restricted to whole numbers, written n.              *)
(***************************************************************************)
Val(t, n, s) == [t |-> t, n |-> n, s |-> s]
IntV(n) == Val("int", n, "")
Int64V(n) == Val("int64", n, "")
Float64V(n) == Val("float64", n, "")
StrV(s) == Val("string", 0, s)
NilV == Val("nil", 0, "")
ErrV(s) == Val("error", 0, s)

IsError(v) == v.t = "error"

\* fmt.Sprint of a non-string value: decimal text of a number ("5" for the
\* int 5, the int64 5 and the float64 5.0), "<nil>" for nil, the message of
\* an error.
Sprint(v) ==
    CASE v.t \in {"int", "int64", "float64"} -> ToString(v.n)
      [] v.t = "nil" -> "<nil>"
      [] OTHER -> v.s

\* stringify: the canonical text of a join key.
stringify(v) ==
    IF v.t = "string" THEN v.s ELSE Sprint(v)

(***************************************************************************)
(* diff2.  The result is [err, val]: err is TRUE when diff stayed nil and  *)
(* the function returned the "cannot calculate diff" error.                *)
(***************************************************************************)
DiffOk(v) == [err |-> FALSE, val |-> v]
DiffErr == [err |-> TRUE, val |-> NilV]

diff2(x, y) ==
    CASE x.t = "float64" /\ y.t = "float64" -> DiffOk(Float64V(x.n - y.n))
      [] x.t = "float64" /\ y.t = "int64"   -> DiffOk(Float64V(x.n - y.n))
      [] x.t = "int64" /\ y.t = "int64"     -> DiffOk(Int64V(x.n - y.n))
      [] x.t = "int64" /\ y.t = "int"       -> DiffOk(Int64V(x.n - y.n))
      [] x.t = "int64" /\ y.t = "float64"   -> DiffOk(Float64V(x.n - y.n))
      [] x.t = "int" /\ y.t = "int"         -> DiffOk(IntV(x.n - y.n))
      [] x.t = "int" /\ y.t = "int64"       -> DiffOk(Int64V(x.n - y.n))
      [] x.t = "int" /\ y.t = "float64"     -> DiffOk(Float64V(x.n - y.n))
      [] OTHER -> DiffErr

(***************************************************************************)
(* The tabular dataset.  A dataset is [data, cursor]: data maps each field *)
(* name to the column of its values (the map[string][]any handed to        *)
(* NewStaticDataSet), cursor is the number of rows Next has stepped onto,  *)
(* 0 before the first row.  Field reads the row the cursor is on.          *)
(***************************************************************************)
EmptyData == [f \in {} |-> <<>>]

NewStaticDataSet(data) == [data |-> data, cursor |-> 0]

NumRows(ds) ==
    IF DOMAIN ds.data = {} THEN 0
    ELSE Len(ds.data[CHOOSE f \in DOMAIN ds.data : TRUE])

\* what Next returns
HasNext(ds) == ds.cursor < NumRows(ds)

\* the dataset after Next: the cursor advances unless it is at the end
DataSetNext(ds) ==
    IF HasNext(ds) THEN [ds EXCEPT !.cursor = @ + 1] ELSE ds

\* a ResetIterator that leaves the cursor where it is
ResetIterator_KeepCursor(ds) == ds

\* ResetIterator: rewind to before the first row
ResetIterator(ds) == [ds EXCEPT !.cursor = 0]

\* Field: the value of the named field in the current row, an error value
\* when the field is absent
Field(ds, name) ==
    IF name \in DOMAIN ds.data /\ ds.cursor \in 1..NumRows(ds)
    THEN ds.data[name][ds.cursor]
    ELSE ErrV("no field")

\* Err: the error the iteration ended with, if the dataset carries one
\* (a dataset made by NewStaticDataSet carries none)
Err(ds) == IF "err" \in DOMAIN ds THEN ds.err ELSE FALSE

\* a dataset whose iteration ends with an error (e = TRUE) or without
WithErr(ds, e) == [data |-> ds.data, cursor |-> ds.cursor, err |-> e]

\* the current row, field by field
CurrentRow(ds) == [f \in DOMAIN ds.data |-> Field(ds, f)]

\* the row loop of GetDataSet: the values of each row are appended to the
\* columns of their fields; no row, no column
RECURSIVE Materialize(_)
Materialize(rows) ==
    IF rows = <<>> THEN EmptyData
    ELSE LET rest == Materialize(SubSeq(rows, 1, Len(rows) - 1))
             vals == rows[Len(rows)]
         IN  [f \in DOMAIN vals |->
                 (IF f \in DOMAIN rest THEN rest[f] ELSE <<>>) \o <<vals[f]>>]

\* a row of the two fields the models' queries select
Row(k, v) == [k |-> k, v |-> v]

NoScan == [done |-> FALSE, rows |-> <<>>]
NoPlotDef == [computed |-> <<>>, series |-> "", scalar |-> ""]
NoScalar == [emitted |-> FALSE, value |-> 0]

(***************************************************************************)
(* SpecDiff: diff2 on every pair of operands of a small set of values of   *)
(* every type a data source delivers.                                      *)
(***************************************************************************)
DiffNumbers == {0, 2, 5}
DiffOperands ==
    {IntV(n) : n \in DiffNumbers} \cup {Int64V(n) : n \in DiffNumbers}
        \cup {Float64V(n) : n \in DiffNumbers} \cup {StrV("a"), NilV}

NoResult == [err |-> FALSE, val |-> Val("none", 0, "")]

InitIdlePath ==
    /\ ft1 = 0 /\ ft2 = 0 /\ ffreq = "daily"
    /\ fname1 = <<>> /\ fname2 = <<>>

InitIdleDiff ==
    /\ px = NilV /\ py = NilV /\ pres = NoResult

InitIdleOrg ==
    /\ files = [p \in {} |-> 0] /\ now = 0 /\ defMtime = 0 /\ ofreq = "daily"
    /\ runs = 0 /\ crashed = FALSE /\ orecent = [n \in {} |-> "none"]
    /\ oworkers = [w \in {} |-> 0]

InitIdleData ==
    /\ dset = NewStaticDataSet(EmptyData) /\ queries = 0
    /\ obs = <<>> /\ fromStart = FALSE
    /\ lastFull = NoScan /\ prevFull = NoScan /\ lastField = NilV
    /\ qpc = "idle"

InitIdleGen ==
    /\ srcRows = [n \in {} |-> <<>>] /\ pd = NoPlotDef
    /\ dataSets = [n \in {} |-> 0]
    /\ gpc = "idle" /\ gerr = FALSE /\ gcancel = FALSE
    /\ seriesOut = <<>> /\ scalarOut = NoScalar

InitIdleRun ==
    /\ rname = <<>> /\ rtime = 0 /\ rforce = FALSE /\ rvalidate = FALSE
    /\ rfig = "error" /\ rqueried = FALSE /\ rpc = "idle"
    /\ rbefore = [p \in {} |-> 0] /\ rwrote = [p \in {} |-> 0]
    /\ rlstat = "none" /\ rret = "none" /\ rother = [pc |-> "idle", t |-> 0]

InitIdleSeries ==
    /\ sdefs = <<>> /\ sreg = [n \in {} |-> 0] /\ straces = <<>> /\ spc = "idle"

NoTraces == [series |-> <<>>, scalars |-> <<>>, tables |-> <<>>]
NoFigDef == [computed |-> <<>>, series |-> <<>>, scalars |-> <<>>, tables |-> <<>>]

InitIdleFig ==
    /\ fsrc = [n \in {} |-> 0] /\ fdef = NoFigDef /\ freg = [n \in {} |-> 0]
    /\ fpc = "idle" /\ fresult = "running" /\ ftraces = NoTraces
    /\ fnext = 0 /\ fcancel = FALSE

InitIdlePg ==
    /\ ppool = "nil" /\ perr = "nil" /\ ponce = "new" /\ pinits = 0
    /\ cpc = [c \in {} |-> 0] /\ cret = [c \in {} |-> 0] /\ cacq = [c \in {} |-> 0]

InitIdleBatch ==
    /\ bconc = 0 /\ bvalidate = FALSE /\ bforce = FALSE
    /\ bmain = "idle" /\ bnext = 0 /\ bret = "none"
    /\ berr = [file |-> 0, kind |-> "nil"] /\ bcancel = FALSE /\ bfails = <<>>
    /\ wpc = <<>> /\ wres = <<>> /\ wstat = <<>>
    /\ wleft = <<>> /\ wdone = <<>> /\ wwrote = <<>>

InitIdleBeat ==
    /\ hgen = "idle" /\ hout = "none" /\ hclosed = 0
    /\ hpc = "none" /\ htick = FALSE /\ hticks = 0 /\ hlogs = 0

InitIdleExtra ==
    /\ InitIdleRun
    /\ InitIdleSeries
    /\ InitIdleFig
    /\ InitIdlePg
    /\ InitIdleBatch
    /\ InitIdleBeat

InitDiff ==
    /\ px \in DiffOperands
    /\ py \in DiffOperands
    /\ pres = NoResult
    /\ InitIdlePath
    /\ InitIdleOrg
    /\ InitIdleData
    /\ InitIdleGen
    /\ InitIdleExtra

ApplyDiff2 ==
    /\ pres = NoResult
    /\ pres' = diff2(px, py)
    /\ UNCHANGED <<px, py>>
    /\ UNCHANGED pathVars
    /\ UNCHANGED orgVars
    /\ UNCHANGED <<dataVars, genVars>>
    /\ UNCHANGED extraVars

NextDiff == ApplyDiff2

SpecDiff == InitDiff /\ [][NextDiff]_vars

(***************************************************************************)
(* Time.  A time.Time in UTC is the number of minutes since the zero time, *)
(* 0001-01-01T00:00Z (a Monday), which is the origin Time.Truncate counts  *)
(* from.  Paths are byte strings: sequences of byte values.                *)
(***************************************************************************)
IsLeap(y) == (y % 4 = 0) /\ ((y % 100 # 0) \/ (y % 400 = 0))

DaysInMonth(y, m) ==
    CASE m \in {4, 6, 9, 11} -> 30
      [] m = 2 -> IF IsLeap(y) THEN 29 ELSE 28
      [] OTHER -> 31

\* number of days from 0001-01-01 to the first day of year y
DaysBeforeYear(y) ==
    LET p == y - 1 IN 365 * p + (p \div 4) - (p \div 100) + (p \div 400)

RECURSIVE DaysBeforeMonth(_, _)
DaysBeforeMonth(y, m) ==
    IF m = 1 THEN 0 ELSE DaysBeforeMonth(y, m - 1) + DaysInMonth(y, m - 1)

\* time.Date(y, m, d, hh, mm, 0, 0, time.UTC), the way an input is written
DateTime(y, m, d, hh, mm) ==
    (DaysBeforeYear(y) + DaysBeforeMonth(y, m) + (d - 1)) * 1440 + hh * 60 + mm

\* Time.Date(): the civil date of a day count, by the 400/100/4/1-year
\* cycles of the calendar.
YearOfDay(days) ==
    LET n400 == days \div 146097
        d1 == days % 146097
        c100 == d1 \div 36524
        n100 == IF c100 = 4 THEN 3 ELSE c100
        d2 == d1 - 36524 * n100
        n4 == d2 \div 1461
        d3 == d2 % 1461
        c1 == d3 \div 365
        n1 == IF c1 = 4 THEN 3 ELSE c1
    IN  [year |-> 400 * n400 + 100 * n100 + 4 * n4 + n1 + 1,
         yday |-> d3 - 365 * n1]

RECURSIVE MonthOfYday(_, _, _)
MonthOfYday(y, m, yday) ==
    IF yday < DaysInMonth(y, m)
    THEN [month |-> m, day |-> yday + 1]
    ELSE MonthOfYday(y, m + 1, yday - DaysInMonth(y, m))

CivilDate(t) ==
    LET yd == YearOfDay(t \div 1440)
        md == MonthOfYday(yd.year, 1, yd.yday)
    IN  [year |-> yd.year, month |-> md.month, day |-> md.day,
         hour |-> (t % 1440) \div 60]

Frequencies == {"weekly", "daily", "hourly"}

\* a Truncate whose weekly case rounds down to the day only
Truncate_WeeklyToDay(f, t) ==
    CASE f = "weekly" -> t - (t % (24 * 60))
      [] f = "daily"  -> t - (t % (24 * 60))
      [] f = "hourly" -> t - (t % 60)

\* PlotFrequency.Truncate: round down to a multiple of the period since the
\* zero time.  An unsupported frequency panics; Filename never calls it
\* with one.
Truncate(f, t) ==
    CASE f = "weekly" -> t - (t % (7 * 24 * 60))
      [] f = "daily"  -> t - (t % (24 * 60))
      [] f = "hourly" -> t - (t % 60)

\* zero-padded decimal digits, as bytes
Pad2(n) == <<48 + ((n \div 10) % 10), 48 + (n % 10)>>
Pad4(n) == <<48 + ((n \div 1000) % 10), 48 + ((n \div 100) % 10)>> \o Pad2(n)

Slash == <<47>>

\* Time.Format("2006/01/02") and Time.Format("2006/01/02/15")
FormatDay(t) ==
    LET c == CivilDate(t) IN Pad4(c.year) \o Slash \o Pad2(c.month) \o Slash \o Pad2(c.day)
FormatHour(t) ==
    FormatDay(t) \o Slash \o Pad2(CivilDate(t).hour)

\* the absolute output directory "/out", and the ".json" extension
Base == <<47, 111, 117, 116>>
JsonExt == <<46, 106, 115, 111, 110>>

\* plot names "x" and "y"
NameX == <<120>>
NameY == <<121>>
Names == {NameX, NameY}

\* filepath.Join of the non-empty elements
JoinPath(base, dated, file) ==
    IF dated = <<>> THEN base \o Slash \o file
    ELSE base \o Slash \o dated \o Slash \o file

\* a Filename that formats the daily path with the hour component
Filename_DailyWithHour(name, f, t) ==
    LET dated ==
            CASE f = "weekly" -> FormatDay(Truncate(f, t))
              [] f = "daily"  -> FormatHour(Truncate(f, t))
              [] f = "hourly" -> FormatHour(Truncate(f, t))
              [] OTHER -> <<>>
    IN  JoinPath(Base, dated, name \o JsonExt)

\* Organizer.Filename: an unsupported frequency is logged and leaves the
\* dated part empty.
Filename(name, f, t) ==
    LET dated ==
            CASE f = "weekly" -> FormatDay(Truncate(f, t))
              [] f = "daily"  -> FormatDay(Truncate(f, t))
              [] f = "hourly" -> FormatHour(Truncate(f, t))
              [] OTHER -> <<>>
    IN  JoinPath(Base, dated, name \o JsonExt)

\* Organizer.LatestFilename: "latest" under the base directory
LatestFilename(name) ==
    JoinPath(Base, <<108, 97, 116, 101, 115, 116>>, name \o JsonExt)

(***************************************************************************)
(* SpecPath: Filename applied, for one plot name and frequency, to two     *)
(* basis times.                                                            *)
(***************************************************************************)
PathTimes ==
    { DateTime(2023, 5, 8, 10, 0), DateTime(2023, 5, 8, 10, 59),
      DateTime(2023, 5, 8, 23, 30), DateTime(2023, 5, 9, 0, 0),
      DateTime(2023, 5, 14, 12, 0), DateTime(2023, 5, 15, 0, 0),
      DateTime(2024, 2, 29, 10, 0), DateTime(2024, 3, 1, 9, 5),
      DateTime(1999, 12, 31, 23, 59), DateTime(2000, 1, 1, 0, 0) }

PathFrequencies == Frequencies \cup {"monthly"}

InitPath ==
    /\ ft1 \in PathTimes
    /\ ft2 \in PathTimes
    /\ ffreq \in PathFrequencies
    /\ fname1 = <<>> /\ fname2 = <<>>
    /\ InitIdleDiff
    /\ InitIdleOrg
    /\ InitIdleData
    /\ InitIdleGen
    /\ InitIdleExtra

ComputeFilename ==
    /\ fname1 = <<>>
    /\ fname1' = Filename(NameX, ffreq, ft1)
    /\ fname2' = Filename(NameX, ffreq, ft2)
    /\ UNCHANGED <<ft1, ft2, ffreq>>
    /\ UNCHANGED diffVars
    /\ UNCHANGED orgVars
    /\ UNCHANGED <<dataVars, genVars>>
    /\ UNCHANGED extraVars

NextPath == ComputeFilename

SpecPath == InitPath /\ [][NextPath]_vars

(***************************************************************************)
(* The organizer over the file tree.  files maps each existing path to the *)
(* bytes written to it and its modification time.                          *)
(***************************************************************************)
\* the basis times of the batch runs
OrgTimes ==
    { DateTime(1999, 12, 30, 10, 0), DateTime(1999, 12, 31, 10, 0),
      DateTime(2023, 5, 8, 10, 0), DateTime(2023, 5, 9, 9, 0) }

\* Filename, tabulated once for the names, frequencies and basis times of
\* the runs: FilenameOf[name, f, t] = o.Filename(pd, basisTime)
FilenameOf ==
    [name \in Names, f \in Frequencies, t \in OrgTimes |-> Filename(name, f, t)]

\* byte-wise order of Go strings
RECURSIVE LexLess(_, _)
LexLess(a, b) ==
    IF b = <<>> THEN FALSE
    ELSE IF a = <<>> THEN TRUE
    ELSE IF Head(a) # Head(b) THEN Head(a) < Head(b)
    ELSE LexLess(Tail(a), Tail(b))

\* sort.Strings: insertion of each element into the sorted prefix
RECURSIVE InsertSorted(_, _)
InsertSorted(sorted, x) ==
    IF sorted = <<>> THEN <<x>>
    ELSE IF LexLess(x, Head(sorted)) THEN <<x>> \o sorted
    ELSE <<Head(sorted)>> \o InsertSorted(Tail(sorted), x)

RECURSIVE SortStrings(_)
SortStrings(seq) ==
    IF seq = <<>> THEN <<>>
    ELSE InsertSorted(SortStrings(SubSeq(seq, 1, Len(seq) - 1)), seq[Len(seq)])

\* the paths of a set in lexical order, as filepath.Glob lists them
RECURSIVE InLexOrder(_)
InLexOrder(S) ==
    IF S = {} THEN <<>>
    ELSE LET least == CHOOSE x \in S : \A y \in S : ~LexLess(y, x)
         IN  <<least>> \o InLexOrder(S \ {least})

\* the byte class [0-9] in a pattern is written 0
DigitClass == <<0>>
PatternDay ==
    <<50, 48>> \o DigitClass \o DigitClass \o Slash \o DigitClass \o DigitClass
        \o Slash \o DigitClass \o DigitClass
PatternHour == PatternDay \o Slash \o DigitClass \o DigitClass

\* the pattern Organizer.Glob builds for a name and frequency
GlobPattern(name, f) ==
    LET dated ==
            CASE f = "weekly" -> PatternDay
              [] f = "daily"  -> PatternDay
              [] f = "hourly" -> PatternHour
              [] OTHER -> <<>>
    IN  JoinPath(Base, dated, name \o JsonExt)

\* filepath.Match of a path against a pattern of literal bytes and [0-9]
Matches(path, pattern) ==
    /\ Len(path) = Len(pattern)
    /\ \A i \in 1..Len(pattern) :
          IF pattern[i] = 0 THEN path[i] \in 48..57 ELSE path[i] = pattern[i]

\* Organizer.Glob: the existing paths that match the pattern
Glob(fs, name, f) ==
    InLexOrder({p \in DOMAIN fs : Matches(p, GlobPattern(name, f))})

\* an IsLatest that compares the candidate with the first entry in order
IsLatest_FirstEntry(fs, name, f, t) ==
    LET fname == FilenameOf[name, f, t]
        existing == SortStrings(Append(Glob(fs, name, f), fname))
    IN  existing[1] = fname

\* Organizer.IsLatest: append the candidate to the globbed paths, sort, and
\* compare the last entry with the candidate
IsLatest(fs, name, f, t) ==
    LET fname == FilenameOf[name, f, t]
        existing == SortStrings(Append(Glob(fs, name, f), fname))
    IN  existing[Len(existing)] = fname

\* Organizer.IsStaleOrMissing: Lstat of the canonical path.  The file is
\* missing (Lstat reports not-exist), or modified before the expected time;
\* when Lstat fails with any other error (lstatErr: a directory of the path
\* cannot be searched, or a component of it is not a directory) the answer
\* is false together with the error.
IsStaleOrMissing(fs, lstatErr, name, f, t, expectedTime) ==
    LET fname == FilenameOf[name, f, t] IN
    IF lstatErr THEN [stale |-> FALSE, err |-> TRUE]
    ELSE IF fname \notin DOMAIN fs THEN [stale |-> TRUE, err |-> FALSE]
    ELSE [stale |-> fs[fname].mtime < expectedTime, err |-> FALSE]

\* the bytes of a file that was created or truncated and not written
Truncated == "truncated"

\* the bytes of a file two writers wrote through their own descriptors
Mixed == "mixed"

\* how a call of writeOutput ends: nil, or the error of MkdirAll, of
\* os.Create or of Fprintln
WriteOutcomes == {"ok", "make directories", "create file", "write file"}

\* how the calls of writeOutput up to os.Create end
CreateOutcomes == {"ok", "make directories", "create file"}

\* os.Create: the file exists and is empty
Create(fs, fname, clock) ==
    [p \in DOMAIN fs \cup {fname} |->
        IF p = fname THEN [data |-> Truncated, mtime |-> clock] ELSE fs[p]]

\* fmt.Fprintln to the file created: the data is written
Fprintln(fs, fname, data, clock) ==
    [p \in DOMAIN fs \cup {fname} |->
        IF p = fname THEN [data |-> data, mtime |-> clock] ELSE fs[p]]

\* what the file can hold after a Fprintln of data that succeeded: the data
\* when the file was empty, and otherwise, another writer having written to
\* it through its own descriptor since this one created it, the data laid
\* over the other's bytes: the data or, when it is the shorter, a mix
Written(fs, fname, data) ==
    IF fs[fname].data = Truncated THEN {data} ELSE {data, Mixed}

\* writeOutput: MkdirAll, os.Create (which creates or truncates the file)
\* and Fprintln, each of which can fail.  A failure of the first two leaves
\* the file as it was, a failure of the write leaves it truncated.
writeOutput(fs, fname, data, clock, outcome) ==
    IF outcome \in {"make directories", "create file"}
    THEN [fs |-> fs, err |-> TRUE]
    ELSE IF outcome = "write file"
    THEN [fs |-> Create(fs, fname, clock), err |-> TRUE]
    ELSE [fs |-> Fprintln(Create(fs, fname, clock), fname, data, clock),
          err |-> FALSE]

\* Organizer.WritePlot: write the dated file, then, if the candidate is
\* the latest of the tree as it is now, the latest file; the error of
\* either write is returned
WritePlot(fs, name, f, t, data, clock, first, second) ==
    LET dated == writeOutput(fs, FilenameOf[name, f, t], data, clock, first) IN
    IF dated.err THEN dated
    ELSE IF IsLatest(dated.fs, name, f, t)
    THEN writeOutput(dated.fs, LatestFilename(name), data, clock, second)
    ELSE dated

(***************************************************************************)
(* SpecOrg: workers of processPlotDefs for the plot definitions of Names   *)
(* with one frequency, for basis times in any order, on one file tree.     *)
(* Workers are goroutines of one errgroup or belong to separate batch      *)
(* processes; each takes the steps of the worker body one at a time, and   *)
(* the steps of the workers in flight interleave.                          *)
(***************************************************************************)
MaxRuns == 2
MaxClock == 1

\* the number of workers in flight at once
OrgConcurrency == 2

\* the document generateFig can produce, as a token for its JSON bytes
Documents == {"doc1"}

InitOrg ==
    /\ files = [p \in {} |-> 0]
    /\ now = 0
    /\ defMtime = 0
    /\ ofreq \in Frequencies
    /\ runs = 0
    /\ crashed = FALSE
    /\ orecent = [n \in Names |-> "none"]
    /\ oworkers = [w \in {} |-> 0]
    /\ InitIdleDiff
    /\ InitIdlePath
    /\ InitIdleData
    /\ InitIdleGen
    /\ InitIdleExtra

\* how the runs of a plot name ended: a run without the force flag that
\* completes right after a crashed one is marked as the run after the crash
AfterCompleted(status, force) ==
    IF status = "crashed" /\ ~force THEN "afterCrash" ELSE "ok"

\* the worker w leaves the group
Leave(w) == [v \in DOMAIN oworkers \ {w} |-> oworkers[v]]

\* the worker w moves to the step pc
Goto(w, pc) == [oworkers EXCEPT ![w].pc = pc]

\* the worker w returns the error of a write: its WritePlot did not complete
WriteFailed(w) ==
    /\ oworkers' = Leave(w)
    /\ crashed' = TRUE
    /\ orecent' = [orecent EXCEPT ![oworkers[w].name] = "failed"]

\* the worker w returns nil: its run of the plot completed
Completed(w) ==
    /\ oworkers' = Leave(w)
    /\ orecent' = [orecent EXCEPT ![oworkers[w].name] =
                      IF oworkers[w].repair THEN "afterCrash" ELSE "ok"]

\* One worker run in validate mode: the staleness and latest checks are
\* printed and the worker returns; nothing is generated or written.
RunValidate ==
    /\ runs < MaxRuns
    /\ runs' = runs + 1
    /\ UNCHANGED <<files, now, defMtime, ofreq, crashed, orecent, oworkers>>
    /\ UNCHANGED <<diffVars, pathVars, dataVars, genVars>>
    /\ UNCHANGED extraVars

\* A worker starts.  It reads, templates and parses the definition file and
\* stats it, and returns the error of any of these (defOk is false).  Then
\* the Lstat of the dated file: the error of IsStaleOrMissing is logged and
\* nothing else; the worker skips the plot, or goes on to generateFig.
RunPlot(name, t, force, defOk, lstatErr) ==
    LET isMissingOrStale ==
            IsStaleOrMissing(files, lstatErr, name, ofreq, t, defMtime).stale
        shouldWrite == force \/ isMissingOrStale
        repair == orecent[name] = "crashed" /\ ~force
    IN  /\ runs < MaxRuns
        /\ Cardinality(DOMAIN oworkers) < OrgConcurrency
        /\ runs' = runs + 1
        /\ IF ~defOk
           THEN UNCHANGED <<orecent, oworkers>>
           ELSE IF ~shouldWrite
           THEN /\ orecent' = [orecent EXCEPT ![name] = AfterCompleted(@, force)]
                /\ UNCHANGED oworkers
           ELSE /\ oworkers' = [w \in DOMAIN oworkers \cup {runs + 1} |->
                                   IF w = runs + 1
                                   THEN [name |-> name, t |-> t, repair |-> repair,
                                         pc |-> "generate"]
                                   ELSE oworkers[w]]
                /\ UNCHANGED orecent
        /\ UNCHANGED <<files, now, defMtime, ofreq, crashed>>
        /\ UNCHANGED <<diffVars, pathVars, dataVars, genVars>>
        /\ UNCHANGED extraVars

\* generateFig returns to the worker w: a document, or an error with which
\* the worker returns
Generate(w, ok) ==
    /\ oworkers[w].pc = "generate"
    /\ oworkers' = IF ok THEN Goto(w, "dated") ELSE Leave(w)
    /\ UNCHANGED <<files, now, defMtime, ofreq, runs, crashed, orecent>>
    /\ UNCHANGED <<diffVars, pathVars, dataVars, genVars>>
    /\ UNCHANGED extraVars

\* the file the worker w writes at the step it is at
WritesTo(w) ==
    IF oworkers[w].pc \in {"dated", "dated data"}
    THEN FilenameOf[oworkers[w].name, ofreq, oworkers[w].t]
    ELSE LatestFilename(oworkers[w].name)

\* writeOutput, MkdirAll and os.Create: the file is there and empty, or the
\* worker returns the error of either call and the file is as it was
CreateFile(w, outcome, next) ==
    /\ IF outcome # "ok"
       THEN /\ WriteFailed(w)
            /\ UNCHANGED files
       ELSE /\ files' = Create(files, WritesTo(w), now)
            /\ oworkers' = Goto(w, next)
            /\ UNCHANGED <<crashed, orecent>>
    /\ UNCHANGED <<now, defMtime, ofreq, runs>>
    /\ UNCHANGED <<diffVars, pathVars, dataVars, genVars>>
    /\ UNCHANGED extraVars

\* WritePlot, first writeOutput, up to os.Create of the dated file
WriteDated(w, outcome) ==
    /\ oworkers[w].pc = "dated"
    /\ CreateFile(w, outcome, "dated data")

\* WritePlot, IsLatest: glob the tree as it is now
CheckLatest(w) ==
    /\ oworkers[w].pc = "glob"
    /\ IF IsLatest(files, oworkers[w].name, ofreq, oworkers[w].t)
       THEN /\ oworkers' = Goto(w, "latest")
            /\ UNCHANGED orecent
       ELSE Completed(w)
    /\ UNCHANGED <<files, now, defMtime, ofreq, runs, crashed>>
    /\ UNCHANGED <<diffVars, pathVars, dataVars, genVars>>
    /\ UNCHANGED extraVars

\* WritePlot, second writeOutput, up to os.Create of the latest file
WriteLatest(w, outcome) ==
    /\ oworkers[w].pc = "latest"
    /\ CreateFile(w, outcome, "latest data")

\* the document the worker w generated, as a token for its JSON bytes
DocumentOf(w) == ToString(w)

\* writeOutput, Fprintln to the file the worker w created.  When the write fails the file stays as it is
\* and the worker returns the error; after the write of the dated file the
\* worker goes on to IsLatest, after that of the latest file it returns nil.
WriteData(w, ok) ==
    /\ oworkers[w].pc \in {"dated data", "latest data"}
    /\ IF ~ok
       THEN /\ WriteFailed(w)
            /\ UNCHANGED files
       ELSE /\ \E data \in Written(files, WritesTo(w), DocumentOf(w)) :
                   files' = Fprintln(files, WritesTo(w), data, now)
            /\ IF oworkers[w].pc = "dated data"
               THEN /\ oworkers' = Goto(w, "glob")
                    /\ UNCHANGED orecent
               ELSE Completed(w)
            /\ UNCHANGED crashed
    /\ UNCHANGED <<now, defMtime, ofreq, runs>>
    /\ UNCHANGED <<diffVars, pathVars, dataVars, genVars>>
    /\ UNCHANGED extraVars

\* The process of worker w dies inside WritePlot, after the dated file is
\* written and before the latest file is.
RunPlotCrash(w) ==
    /\ oworkers[w].pc \in {"glob", "latest"}
    /\ oworkers' = Leave(w)
    /\ crashed' = TRUE
    /\ orecent' = [orecent EXCEPT ![oworkers[w].name] = "crashed"]
    /\ UNCHANGED <<files, now, defMtime, ofreq, runs>>
    /\ UNCHANGED <<diffVars, pathVars, dataVars, genVars>>
    /\ UNCHANGED extraVars

\* the runs of the model: plot x for every basis time, plot y for one
RunTargets ==
    {<<NameX, t>> : t \in OrgTimes} \cup {<<NameY, DateTime(2023, 5, 8, 10, 0)>>}

Run ==
    \E target \in RunTargets, force \in BOOLEAN, defOk \in BOOLEAN,
       lstatErr \in BOOLEAN :
        RunPlot(target[1], target[2], force, defOk, lstatErr)

GenerateFig == \E w \in DOMAIN oworkers, ok \in BOOLEAN : Generate(w, ok)

WritePlotDated ==
    \E w \in DOMAIN oworkers, outcome \in CreateOutcomes : WriteDated(w, outcome)

WritePlotIsLatest == \E w \in DOMAIN oworkers : CheckLatest(w)

WritePlotLatest ==
    \E w \in DOMAIN oworkers, outcome \in CreateOutcomes : WriteLatest(w, outcome)

WritePlotData == \E w \in DOMAIN oworkers, ok \in BOOLEAN : WriteData(w, ok)

RunCrash == \E w \in DOMAIN oworkers : RunPlotCrash(w)

\* time passes and the definition file is edited
TouchDef ==
    /\ now < MaxClock
    /\ now' = now + 1
    /\ defMtime' = now + 1
    /\ UNCHANGED <<files, ofreq, runs, crashed, orecent, oworkers>>
    /\ UNCHANGED <<diffVars, pathVars, dataVars, genVars>>
    /\ UNCHANGED extraVars

NextOrg ==
    \/ Run
    \/ RunValidate
    \/ GenerateFig
    \/ WritePlotDated
    \/ WritePlotIsLatest
    \/ WritePlotLatest
    \/ WritePlotData
    \/ RunCrash
    \/ TouchDef

SpecOrg == InitOrg /\ [][NextOrg]_vars

(***************************************************************************)
(* SpecRun: the worker of processPlotDefs for one definition file, step by *)
(* step, against a tree in which the dated file of the plot is absent or   *)
(* was written by an earlier run, before, at or after the time the         *)
(* definition file was last modified.  The Lstat of the staleness check    *)
(* can fail, and so can each step of a write.  Between the steps of the    *)
(* worker another worker (of the group, or of another batch process)       *)
(* writes the files of the same plot.                                      *)
(***************************************************************************)
MaxMtime == 2

\* when the definition file was last modified: the dated file is written
\* before it (at 0), at the same time, or after it (up to MaxMtime)
DefinitionMtime == 1

\* the tree an earlier completed run of the plot leaves
TreeAfterRun(name, f, t, clock) ==
    WritePlot([p \in {} |-> 0], name, f, t, "doc0", clock, "ok", "ok").fs

\* the dated file of the worker's plot
RunFile == FilenameOf[rname, ofreq, rtime]

InitRun ==
    /\ rname \in Names
    /\ rtime \in OrgTimes
    /\ ofreq \in Frequencies
    /\ rforce \in BOOLEAN
    /\ rvalidate \in BOOLEAN
    /\ rfig \in Documents \cup {"error"}
    /\ defMtime = DefinitionMtime
    /\ now = MaxMtime + 1
    /\ files \in {[p \in {} |-> 0]}
                    \cup {TreeAfterRun(rname, ofreq, rtime, m) : m \in 0..MaxMtime}
    /\ rbefore = files
    /\ rwrote = [p \in {} |-> 0]
    /\ rlstat = "none"
    /\ rret = "none"
    /\ rother = [pc |-> "dated", t |-> 0]
    /\ rqueried = FALSE
    /\ rpc = "ready"
    /\ runs = 0 /\ crashed = FALSE /\ orecent = [n \in {} |-> "none"]
    /\ oworkers = [w \in {} |-> 0]
    /\ InitIdleDiff
    /\ InitIdlePath
    /\ InitIdleData
    /\ InitIdleGen
    /\ InitIdleSeries
    /\ InitIdleFig
    /\ InitIdlePg
    /\ InitIdleBatch
    /\ InitIdleBeat

\* what the steps of the worker leave alone
WorkerFrame ==
    /\ UNCHANGED <<rname, rtime, rforce, rvalidate, rfig, rother>>
    /\ UNCHANGED <<now, defMtime, ofreq, runs, crashed, orecent, oworkers>>
    /\ UNCHANGED <<diffVars, pathVars, dataVars, genVars, seriesVars, figVars, pgVars,
                   batchVars, beatVars>>

\* the worker returns, nil or an error
WorkerReturns(ret) ==
    /\ rpc' = "done"
    /\ rret' = ret

\* The worker up to the decision.  It reads, templates and parses the
\* definition file and stats it, and returns the error of any of these
\* (defOk is false).  Then the staleness check (Lstat of the tree as it is
\* now, which can fail; the error is logged and nothing else), and the
\* validate and skip returns.
Worker ==
    \E defOk \in BOOLEAN, lstatErr \in BOOLEAN :
        LET isMissingOrStale ==
                IsStaleOrMissing(files, lstatErr, rname, ofreq, rtime, defMtime)
            shouldWrite == rforce \/ isMissingOrStale.stale
        IN  /\ rpc = "ready"
            /\ rbefore' = files
            /\ IF ~defOk
               THEN WorkerReturns("error") /\ UNCHANGED rlstat
               ELSE /\ rlstat' = IF isMissingOrStale.err THEN "error" ELSE "ok"
                    /\ IF rvalidate \/ ~shouldWrite
                       THEN WorkerReturns("nil")
                       ELSE rpc' = "generate" /\ UNCHANGED rret
            /\ UNCHANGED <<files, rqueried, rwrote>>
            /\ WorkerFrame

\* generateFig is called and returns
WorkerGenerate ==
    /\ rpc = "generate"
    /\ rqueried' = TRUE
    /\ IF rfig = "error"
       THEN WorkerReturns("error")
       ELSE rpc' = "dated" /\ UNCHANGED rret
    /\ UNCHANGED <<files, rbefore, rwrote, rlstat>>
    /\ WorkerFrame

\* writeOutput, MkdirAll and os.Create of the file: an error of either with
\* which the worker returns, or the file is there and empty
WorkerCreates(fname, next) ==
    \E outcome \in CreateOutcomes :
        /\ IF outcome # "ok"
           THEN /\ WorkerReturns("error")
                /\ UNCHANGED files
           ELSE /\ files' = Create(files, fname, now)
                /\ rpc' = next
                /\ UNCHANGED rret
        /\ UNCHANGED <<rqueried, rbefore, rwrote, rlstat>>
        /\ WorkerFrame

\* WritePlot, first writeOutput
WorkerWriteDated ==
    /\ rpc = "dated"
    /\ WorkerCreates(RunFile, "dated data")

\* WritePlot, IsLatest over the tree as it is now
WorkerIsLatest ==
    /\ rpc = "glob"
    /\ IF IsLatest(files, rname, ofreq, rtime)
       THEN rpc' = "latest" /\ UNCHANGED rret
       ELSE WorkerReturns("nil")
    /\ UNCHANGED <<files, rqueried, rbefore, rwrote, rlstat>>
    /\ WorkerFrame

\* WritePlot, second writeOutput
WorkerWriteLatest ==
    /\ rpc = "latest"
    /\ WorkerCreates(LatestFilename(rname), "latest data")

\* writeOutput, Fprintln to the file the worker created: the document is
\* written and the worker goes on, or the write fails, the file stays as
\* it is and the worker returns the error.  When another worker created the
\* file again meanwhile, the two write the same file through their own
\* descriptors and the bytes of either can remain, or a mix of them.
WorkerFprintln ==
    LET fname == IF rpc = "dated data" THEN RunFile ELSE LatestFilename(rname) IN
    /\ rpc \in {"dated data", "latest data"}
    /\ \E ok \in BOOLEAN :
          IF ok
          THEN /\ \E data \in Written(files, fname, rfig) :
                      files' = Fprintln(files, fname, data, now)
               /\ rwrote' = [p \in DOMAIN rwrote \cup {fname} |->
                                IF p = fname THEN rfig ELSE rwrote[p]]
               /\ IF rpc = "dated data"
                  THEN rpc' = "glob" /\ UNCHANGED rret
                  ELSE WorkerReturns("nil")
          ELSE /\ WorkerReturns("error")
               /\ UNCHANGED <<files, rwrote>>
    /\ UNCHANGED <<rqueried, rbefore, rlstat>>
    /\ WorkerFrame

\* the basis times of the other worker: that of this worker, or a later one
OtherTimes == {rtime, DateTime(2023, 5, 9, 9, 0)}

\* the file the other worker writes at the step it is at
OtherFile ==
    IF rother.pc = "dated data"
    THEN FilenameOf[rname, ofreq, rother.t]
    ELSE LatestFilename(rname)

\* what the steps of the other worker leave alone
OtherFrame ==
    /\ UNCHANGED <<rname, rtime, rforce, rvalidate, rfig>>
    /\ UNCHANGED <<rqueried, rbefore, rwrote, rlstat, rpc, rret>>
    /\ UNCHANGED <<now, defMtime, ofreq, runs, crashed, orecent, oworkers>>
    /\ UNCHANGED <<diffVars, pathVars, dataVars, genVars, seriesVars, figVars, pgVars,
                   batchVars, beatVars>>

\* Another worker (of the group, or of another batch process) is in
\* WritePlot for the same plot while this one runs.  Its first writeOutput,
\* up to os.Create: the dated file is there and empty, or the call fails
\* and the other worker returns.
OtherWorker ==
    /\ rpc \notin {"idle", "done"}
    /\ rother.pc = "dated"
    /\ \E t \in OtherTimes, outcome \in CreateOutcomes :
          IF outcome # "ok"
          THEN /\ rother' = [rother EXCEPT !.pc = "done"]
               /\ UNCHANGED files
          ELSE /\ files' = Create(files, FilenameOf[rname, ofreq, t], now)
               /\ rother' = [pc |-> "dated data", t |-> t]
    /\ OtherFrame

\* the Fprintln of the other worker: its document is written, or the write
\* fails, the file stays as it is and the other worker returns
OtherFprintln ==
    /\ rpc \notin {"idle", "done"}
    /\ rother.pc \in {"dated data", "latest data"}
    /\ \E ok \in BOOLEAN :
          IF ok
          THEN /\ \E data \in Written(files, OtherFile, "other") :
                      files' = Fprintln(files, OtherFile, data, now)
               /\ rother' = [rother EXCEPT
                                !.pc = IF @ = "dated data" THEN "glob" ELSE "done"]
          ELSE /\ rother' = [rother EXCEPT !.pc = "done"]
               /\ UNCHANGED files
    /\ OtherFrame

\* the IsLatest of the other worker over the tree as it is now
OtherIsLatest ==
    /\ rpc \notin {"idle", "done"}
    /\ rother.pc = "glob"
    /\ rother' = [rother EXCEPT
                     !.pc = IF IsLatest(files, rname, ofreq, rother.t)
                            THEN "latest" ELSE "done"]
    /\ UNCHANGED files
    /\ OtherFrame

\* the second writeOutput of the other worker, up to os.Create
OtherWriteLatest ==
    /\ rpc \notin {"idle", "done"}
    /\ rother.pc = "latest"
    /\ \E outcome \in CreateOutcomes :
          IF outcome # "ok"
          THEN /\ rother' = [rother EXCEPT !.pc = "done"]
               /\ UNCHANGED files
          ELSE /\ files' = Create(files, LatestFilename(rname), now)
               /\ rother' = [rother EXCEPT !.pc = "latest data"]
    /\ OtherFrame

NextRun ==
    \/ Worker
    \/ WorkerGenerate
    \/ WorkerWriteDated
    \/ WorkerIsLatest
    \/ WorkerWriteLatest
    \/ WorkerFprintln
    \/ OtherWorker
    \/ OtherFprintln
    \/ OtherIsLatest
    \/ OtherWriteLatest

SpecRun == InitRun /\ [][NextRun]_vars

(***************************************************************************)
(* SpecData: one source query, materialized once, and any sequence of      *)
(* Next, Field and ResetIterator calls on its dataset.  A full scan is a   *)
(* run of Next calls from before the first row until Next returns false.   *)
(***************************************************************************)
MaxRows == 2

\* the sequences of at most MaxRows rows drawn from a set of rows
RowSeqs(S) == UNION {[1..n -> S] : n \in 0..MaxRows}

DataRows ==
    { Row(StrV("A"), Float64V(5)), Row(StrV("B"), Int64V(7)),
      Row(Int64V(1), StrV("x")) }
FieldNames == {"k", "v", "w"}

InitData ==
    /\ dset = NewStaticDataSet(EmptyData)
    /\ queries = 0
    /\ qpc = "start"
    /\ obs = <<>>
    /\ fromStart = FALSE
    /\ lastFull = NoScan
    /\ prevFull = NoScan
    /\ lastField = NilV
    /\ InitIdleDiff
    /\ InitIdlePath
    /\ InitIdleOrg
    /\ InitIdleGen
    /\ InitIdleExtra

\* PgDataSource.GetDataSet, step by step.  p.poolOnce.Do: ParseConfig and
\* NewWithConfig, each of which may fail; p.err or p.pool is set
GetDataSetInit ==
    /\ qpc = "start"
    /\ ponce = "new"
    /\ \E outcome \in {"pool", "unable to parse connection string",
                        "unable to connect to database"} :
           IF outcome = "pool"
           THEN ppool' = "pool" /\ UNCHANGED perr
           ELSE perr' = outcome /\ UNCHANGED ppool
    /\ pinits' = pinits + 1
    /\ ponce' = "done"
    /\ qpc' = "check"
    /\ UNCHANGED <<dset, queries, obs, fromStart, lastFull, prevFull, lastField>>
    /\ UNCHANGED <<cpc, cret, cacq>>
    /\ UNCHANGED <<diffVars, pathVars, orgVars, genVars>>
    /\ UNCHANGED <<runVars, seriesVars, figVars, batchVars, beatVars>>

\* if p.err != nil { return nil, p.err }
GetDataSetCheckErr ==
    /\ qpc = "check"
    /\ qpc' = IF perr # "nil" THEN "failed" ELSE "acquire"
    /\ UNCHANGED <<dset, queries, obs, fromStart, lastFull, prevFull, lastField>>
    /\ UNCHANGED <<diffVars, pathVars, orgVars, genVars>>
    /\ UNCHANGED extraVars

\* p.pool.Acquire(ctx), which waits for a connection: on failure p.err is
\* assigned and "execute query: ..." returned
GetDataSetAcquire ==
    /\ qpc = "acquire"
    /\ \E ok \in BOOLEAN :
           IF ok
           THEN qpc' = "query" /\ UNCHANGED perr
           ELSE qpc' = "failed" /\ perr' = "acquire: unable to connect to database"
    /\ UNCHANGED <<dset, queries, obs, fromStart, lastFull, prevFull, lastField>>
    /\ UNCHANGED <<ppool, ponce, pinits, cpc, cret, cacq>>
    /\ UNCHANGED <<diffVars, pathVars, orgVars, genVars>>
    /\ UNCHANGED <<runVars, seriesVars, figVars, batchVars, beatVars>>

\* conn.Query and the row loop: the query runs and its rows are collected
\* into columns, and the dataset over them is returned; or the query, the
\* reading of a row or the collection fails and no dataset is returned
GetDataSetQuery ==
    /\ qpc = "query"
    /\ \/ \E rows \in RowSeqs(DataRows) :
              /\ queries' = queries + 1
              /\ dset' = NewStaticDataSet(Materialize(rows))
              /\ fromStart' = TRUE
              /\ qpc' = "returned"
       \/ \E e \in {"execute query", "read row values", "collect rows"} :
              /\ qpc' = "failed"
              /\ UNCHANGED <<dset, queries, fromStart>>
    /\ obs' = <<>>
    /\ UNCHANGED <<lastFull, prevFull, lastField>>
    /\ UNCHANGED <<diffVars, pathVars, orgVars, genVars>>
    /\ UNCHANGED extraVars

\* a call of Next: on true the caller sees the row the cursor is now on;
\* on false a scan that began at the first row is a completed full scan
CallNext ==
    /\ queries > 0
    /\ dset' = DataSetNext(dset)
    /\ IF HasNext(dset)
       THEN /\ obs' = Append(obs, CurrentRow(DataSetNext(dset)))
            /\ UNCHANGED <<fromStart, lastFull, prevFull>>
       ELSE IF fromStart
       THEN /\ lastFull' = [done |-> TRUE, rows |-> obs]
            /\ prevFull' = lastFull
            /\ fromStart' = FALSE
            /\ UNCHANGED obs
       ELSE UNCHANGED <<obs, fromStart, lastFull, prevFull>>
    /\ UNCHANGED <<qpc, queries, lastField>>
    /\ UNCHANGED <<diffVars, pathVars, orgVars, genVars>>
    /\ UNCHANGED extraVars

\* a call of Field
CallField ==
    \E name \in FieldNames :
        /\ queries > 0
        /\ lastField' = Field(dset, name)
        /\ UNCHANGED <<qpc, dset, queries, obs, fromStart, lastFull, prevFull>>
        /\ UNCHANGED <<diffVars, pathVars, orgVars, genVars>>
        /\ UNCHANGED extraVars

\* a call of ResetIterator
CallResetIterator ==
    /\ queries > 0
    /\ dset' = ResetIterator(dset)
    /\ obs' = <<>>
    /\ fromStart' = TRUE
    /\ UNCHANGED <<qpc, queries, lastFull, prevFull, lastField>>
    /\ UNCHANGED <<diffVars, pathVars, orgVars, genVars>>
    /\ UNCHANGED extraVars

NextData ==
    \/ GetDataSetInit
    \/ GetDataSetCheckErr
    \/ GetDataSetAcquire
    \/ GetDataSetQuery
    \/ CallNext
    \/ CallField
    \/ CallResetIterator

SpecData == InitData /\ [][NextData]_vars

(***************************************************************************)
(* ComputeBinaryPredicate.  The two inputs are references into the         *)
(* registry reg, by dataset name, so that two references to one dataset    *)
(* share its cursor.  Both definitions join on field k and take field v.   *)
(***************************************************************************)
JoinField == "k"
ValueField == "v"

\* rows2[key] = value
Put(m, key, value) ==
    [x \in DOMAIN m \cup {key} |-> IF x = key THEN value ELSE m[x]]

\* the loop over in2: every remaining row is entered under the text of
\* its join key; a join or value field that is an error ends the call
RECURSIVE ScanIn2(_, _)
ScanIn2(ds, rows2) ==
    IF ~HasNext(ds) THEN [err |-> FALSE, ds |-> ds, rows2 |-> rows2]
    ELSE LET cur == DataSetNext(ds)
             join == Field(cur, JoinField)
             value == Field(cur, ValueField)
         IN  IF IsError(join) THEN [err |-> TRUE, ds |-> cur, rows2 |-> rows2]
             ELSE IF IsError(value) THEN [err |-> TRUE, ds |-> cur, rows2 |-> rows2]
             ELSE ScanIn2(cur, Put(rows2, stringify(join), value))

\* an output that names its first column "key"
AppendOutput_KeyColumn(data, join, res) ==
    [f \in {"key", "value"} |->
        (IF f \in DOMAIN data THEN data[f] ELSE <<>>)
            \o <<IF f = "key" THEN join ELSE res>>]

\* data["field"] = append(data["field"], join) and the same for "value"
AppendOutput(data, join, res) ==
    [f \in {"field", "value"} |->
        (IF f \in DOMAIN data THEN data[f] ELSE <<>>)
            \o <<IF f = "field" THEN join ELSE res>>]

\* the loop over in1: a remaining row with a key of rows2 gives an output
\* row; a join or value field that is an error, or a failing predicate,
\* ends the call with an error
RECURSIVE ScanIn1(_, _, _)
ScanIn1(ds, rows2, data) ==
    IF ~HasNext(ds) THEN [err |-> FALSE, ds |-> ds, data |-> data]
    ELSE LET cur == DataSetNext(ds)
             join == Field(cur, JoinField)
             value1 == Field(cur, ValueField)
         IN  IF IsError(join) THEN [err |-> TRUE, ds |-> cur, data |-> data]
             ELSE IF stringify(join) \notin DOMAIN rows2
             THEN ScanIn1(cur, rows2, data)
             ELSE IF IsError(value1) THEN [err |-> TRUE, ds |-> cur, data |-> data]
             ELSE LET res == diff2(value1, rows2[stringify(join)])
                  IN  IF res.err
                      THEN [err |-> TRUE, ds |-> cur, data |-> data]
                      ELSE ScanIn1(cur, rows2, AppendOutput(data, join, res.val))

\* the result is [err, out, reg]: out the new dataset, reg the registry
\* with the cursors of the inputs where the call left them; err is TRUE
\* when a row lacks the join or the value field, the predicate failed or
\* an iteration ended with an error
ComputeBinaryPredicate(reg, in1, in2) ==
    LET reset1 == [reg EXCEPT ![in1] = ResetIterator(@)]
        reset2 == [reset1 EXCEPT ![in2] = ResetIterator(@)]
        scan2 == ScanIn2(reset2[in2], [x \in {} |-> NilV])
        after2 == [reset2 EXCEPT ![in2] = scan2.ds]
        scan1 == ScanIn1(after2[in1], scan2.rows2, EmptyData)
        after1 == [after2 EXCEPT ![in1] = scan1.ds]
    IN  IF scan2.err \/ Err(scan2.ds)
        THEN [err |-> TRUE, out |-> NewStaticDataSet(EmptyData), reg |-> after2]
        ELSE [err |-> scan1.err \/ Err(scan1.ds),
              out |-> NewStaticDataSet(scan1.data), reg |-> after1]

(***************************************************************************)
(* The passes of generateFig over the registry, for a plot definition of   *)
(* one series and one scalar, both on field v.                             *)
(***************************************************************************)
\* the loop of seriesTraces over the rows of one dataset
RECURSIVE ScanSeries(_, _)
ScanSeries(ds, values) ==
    IF ~HasNext(ds) THEN [ds |-> ds, values |-> values]
    ELSE LET cur == DataSetNext(ds)
         IN  ScanSeries(cur, Append(values, Field(cur, ValueField)))

\* seriesTraces: a series on an unknown dataset is skipped; the dataset is
\* rewound and read to the end
seriesTraces(reg, dsname) ==
    IF dsname \notin DOMAIN reg THEN [reg |-> reg, values |-> <<>>]
    ELSE LET scan == ScanSeries(ResetIterator(reg[dsname]), <<>>)
         IN  [reg |-> [reg EXCEPT ![dsname] = scan.ds], values |-> scan.values]

\* the type switch of scalarTraces on the value read
ScalarValue(v) ==
    CASE v.t = "float64" -> v.n
      [] v.t = "int64" -> v.n
      [] OTHER -> 0

\* scalarTraces: one Next on the dataset; no row, no trace
scalarTraces(reg, dsname) ==
    IF dsname \notin DOMAIN reg THEN [reg |-> reg, out |-> NoScalar]
    ELSE IF ~HasNext(reg[dsname])
    THEN [reg |-> [reg EXCEPT ![dsname] = DataSetNext(@)], out |-> NoScalar]
    ELSE LET cur == DataSetNext(reg[dsname])
         IN  [reg |-> [reg EXCEPT ![dsname] = cur],
              out |-> [emitted |-> TRUE,
                       value |-> ScalarValue(Field(cur, ValueField))]]

(***************************************************************************)
(* Spec: one generation.  The sources' rows and the plot definition are    *)
(* the inputs; generateFig fetches datasets a and b, derives d when the    *)
(* definition has a computed dataset, then runs the series pass and the    *)
(* scalar pass.                                                            *)
(***************************************************************************)
LeftRows ==
    { Row(StrV("A"), Float64V(5)), Row(Int64V(1), Int64V(7)),
      Row(StrV("C"), Int64V(2)) }
RightRows ==
    { Row(StrV("A"), Float64V(2)), Row(StrV("A"), Float64V(3)),
      Row(StrV("1"), Int64V(4)), Row(StrV("C"), StrV("x")) }

ComputedName == "d"

PlotDefs ==
    [computed : {<<>>, <<"a", "b">>, <<"b", "a">>, <<"a", "a">>},
     series : {"", "b"},
     scalar : {"a", "b"}]

\* the rows of a query that does not select the join field, and of one
\* that does not select the value field
NoJoinRows == <<[w |-> StrV("A"), v |-> Int64V(1)]>>
NoValueRows == <<[k |-> StrV("A"), w |-> Int64V(1)]>>

\* pd.Datasets: the declared datasets, in the order of the definition
GenDataSets == <<"a", "b">>

Init ==
    /\ srcRows \in [a : RowSeqs(LeftRows) \cup {NoJoinRows, NoValueRows},
                    b : RowSeqs(RightRows) \cup {NoJoinRows, NoValueRows}]
    /\ pd \in PlotDefs
    /\ dataSets = [n \in {} |-> 0]
    /\ gpc = "fetch"
    /\ gerr = FALSE
    /\ gcancel = FALSE
    /\ seriesOut = <<>>
    /\ scalarOut = NoScalar
    /\ InitIdleDiff
    /\ InitIdlePath
    /\ InitIdleOrg
    /\ InitIdleData
    /\ InitIdleExtra

\* the context of the generation is cancelled: a sibling task of the
\* group has failed, or the batch was interrupted
CancelContext ==
    /\ gpc \in {"fetch", "query", "compute", "derive"}
    /\ ~gcancel
    /\ gcancel' = TRUE
    /\ UNCHANGED <<srcRows, pd, dataSets, gpc, gerr, seriesOut, scalarOut>>
    /\ UNCHANGED <<diffVars, pathVars, orgVars, dataVars>>
    /\ UNCHANGED extraVars

\* the head of an iteration of the loop over pd.Datasets: the checkpoint
\* on the context and the lookup of the source; then GetDataSet is called
FetchCheckpoint ==
    \E exists \in BOOLEAN :
        /\ gpc = "fetch"
        /\ IF gcancel \/ ~exists
           THEN gerr' = TRUE /\ gpc' = "done"
           ELSE gpc' = "query" /\ UNCHANGED gerr
        /\ UNCHANGED <<srcRows, pd, dataSets, seriesOut, scalarOut, gcancel>>
        /\ UNCHANGED <<diffVars, pathVars, orgVars, dataVars>>
        /\ UNCHANGED extraVars

\* GetDataSet returns, when the query has run: its dataset is stored in
\* dataSets, or its error ends the generation.  The context is not looked
\* at again before the head of the next iteration.
FetchDataSets ==
    \E ok \in BOOLEAN :
        LET n == GenDataSets[Cardinality(DOMAIN dataSets) + 1] IN
        /\ gpc = "query"
        /\ IF ~ok
           THEN gerr' = TRUE /\ gpc' = "done" /\ UNCHANGED dataSets
           ELSE /\ dataSets' =
                       [m \in DOMAIN dataSets \cup {n} |->
                           IF m = n THEN NewStaticDataSet(Materialize(srcRows[n]))
                           ELSE dataSets[m]]
                /\ gpc' = IF n = GenDataSets[Len(GenDataSets)]
                          THEN "compute" ELSE "fetch"
                /\ UNCHANGED gerr
        /\ UNCHANGED <<srcRows, pd, seriesOut, scalarOut, gcancel>>
        /\ UNCHANGED <<diffVars, pathVars, orgVars, dataVars>>
        /\ UNCHANGED extraVars

\* the head of the loop over pd.Computed, of at most one computed dataset:
\* the end of the loop, or the checkpoint on the context
ComputeCheckpoint ==
    /\ gpc = "compute"
    /\ IF pd.computed = <<>>
       THEN gpc' = "series" /\ UNCHANGED gerr
       ELSE IF gcancel
       THEN gerr' = TRUE /\ gpc' = "done"
       ELSE gpc' = "derive" /\ UNCHANGED gerr
    /\ UNCHANGED <<srcRows, pd, dataSets, seriesOut, scalarOut, gcancel>>
    /\ UNCHANGED <<diffVars, pathVars, orgVars, dataVars>>
    /\ UNCHANGED extraVars

\* the body of the loop over pd.Computed: the derive and the store of its
\* dataset
ComputeDataSets ==
    /\ gpc = "derive"
    /\ LET r == ComputeBinaryPredicate(dataSets, pd.computed[1], pd.computed[2])
       IN  IF r.err
           THEN /\ gerr' = TRUE
                /\ gpc' = "done"
                /\ dataSets' = r.reg
           ELSE /\ dataSets' =
                       [n \in DOMAIN r.reg \cup {ComputedName} |->
                           IF n = ComputedName THEN r.out ELSE r.reg[n]]
                /\ gpc' = "series"
                /\ UNCHANGED gerr
    /\ UNCHANGED <<srcRows, pd, seriesOut, scalarOut, gcancel>>
    /\ UNCHANGED <<diffVars, pathVars, orgVars, dataVars>>
    /\ UNCHANGED extraVars

SeriesPass ==
    /\ gpc = "series"
    /\ LET r == seriesTraces(dataSets, pd.series)
       IN  /\ dataSets' = r.reg
           /\ seriesOut' = r.values
    /\ gpc' = "scalars"
    /\ UNCHANGED <<srcRows, pd, gerr, scalarOut, gcancel>>
    /\ UNCHANGED <<diffVars, pathVars, orgVars, dataVars>>
    /\ UNCHANGED extraVars

ScalarPass ==
    /\ gpc = "scalars"
    /\ LET r == scalarTraces(dataSets, pd.scalar)
       IN  /\ dataSets' = r.reg
           /\ scalarOut' = r.out
    /\ gpc' = "done"
    /\ UNCHANGED <<srcRows, pd, gerr, seriesOut, gcancel>>
    /\ UNCHANGED <<diffVars, pathVars, orgVars, dataVars>>
    /\ UNCHANGED extraVars

Next ==
    \/ CancelContext
    \/ FetchCheckpoint
    \/ FetchDataSets
    \/ ComputeCheckpoint
    \/ ComputeDataSets
    \/ SeriesPass
    \/ ScalarPass

Spec == Init /\ [][Next]_vars

(***************************************************************************)
(* seriesTraces in full: several series definitions, grouping, and the     *)
(* accumulators.  Series names are byte strings, so that their order can   *)
(* be computed.                                                            *)
(***************************************************************************)
\* the bytes of the strings of the model's datasets
StringBytes ==
    [s \in {"A", "B", "C", "p", "q"} |->
        CASE s = "A" -> <<65>> [] s = "B" -> <<66>> [] s = "C" -> <<67>>
          [] s = "p" -> <<112>> [] s = "q" -> <<113>>]

\* the bytes of the type names fmt prints
TypeBytes(t) ==
    CASE t = "int" -> <<105, 110, 116>>
      [] t = "int64" -> <<105, 110, 116, 54, 52>>
      [] OTHER -> <<102, 108, 111, 97, 116, 54, 52>>

\* fmt.Sprintf("%s", v): the string itself; for a number the bad-verb
\* text %!s(type=n), here for one-digit numbers
FormatS(v) ==
    IF v.t = "string" THEN StringBytes[v.s]
    ELSE <<37, 33, 115, 40>> \o TypeBytes(v.t) \o <<61, 48 + v.n, 41>>

\* a series definition; labels are read from field k, values from field v
SeriesDef(type, name, dataset, groupField, groupValue) ==
    [type |-> type, name |-> name, dataset |-> dataset,
     groupField |-> groupField, groupValue |-> groupValue, order |-> 0]

\* parsePlotDef: each series is annotated with its index in the definition
RECURSIVE AnnotateOrder(_, _)
AnnotateOrder(defs, i) ==
    IF defs = <<>> THEN <<>>
    ELSE <<[Head(defs) EXCEPT !.order = i]>> \o AnnotateOrder(Tail(defs), i + 1)

\* seriesByDataSet: per known dataset, its definitions in declaration order
SeriesOn(reg, defs, dsname) ==
    SelectSeq(defs, LAMBDA d : d.dataset = dsname)
SeriesDataSets(reg, defs) ==
    {defs[i].dataset : i \in DOMAIN defs} \cap DOMAIN reg

\* the name of no series: a row filtered out by a fixed group value
NoName == <<0>>

\* a DisplayName that ignores the group field
DisplayName_NoGroup(d, ds) == d.name

\* the display name of definition d for the current row of ds, or no name
\* when the row is filtered out by a fixed group value
DisplayName(d, ds) ==
    IF d.groupField = "" THEN d.name
    ELSE IF d.groupValue = "*"
    THEN IF d.name # <<>>
         THEN d.name \o <<45>> \o FormatS(Field(ds, d.groupField))
         ELSE FormatS(Field(ds, d.groupField))
    ELSE IF Field(ds, d.groupField) # StrV(d.groupValue) THEN NoName
    ELSE d.name

\* the accumulator of a name in data, 0 if there is none
IndexOfName(data, name) ==
    IF \E i \in DOMAIN data : data[i].name = name
    THEN CHOOSE i \in DOMAIN data : data[i].name = name
    ELSE 0

\* the inner loop: the current row of ds offered to each definition in turn
RECURSIVE AccumulateRow(_, _, _)
AccumulateRow(data, ds, series) ==
    IF series = <<>> THEN data
    ELSE LET d == Head(series)
             name == DisplayName(d, ds)
             i == IndexOfName(data, name)
             created == IF i = 0
                        THEN Append(data, [name |-> name, def |-> d,
                                           labels |-> <<>>, values |-> <<>>])
                        ELSE data
             j == IF i = 0 THEN Len(created) ELSE i
             added == [created EXCEPT
                          ![j].labels = Append(@, Field(ds, "k")),
                          ![j].values = Append(@, Field(ds, "v"))]
         IN  IF name = NoName THEN AccumulateRow(data, ds, Tail(series))
             ELSE AccumulateRow(added, ds, Tail(series))

\* the loop over the rows of one dataset
RECURSIVE AccumulateRows(_, _, _)
AccumulateRows(data, ds, series) ==
    IF ~HasNext(ds) THEN [ds |-> ds, data |-> data]
    ELSE LET cur == DataSetNext(ds)
         IN  AccumulateRows(AccumulateRow(data, cur, series), cur, series)

\* the order of sort.Slice: by declaration index, then by name
SeriesLess(a, b) ==
    IF a.def.order # b.def.order THEN a.def.order < b.def.order
    ELSE LexLess(a.name, b.name)

RECURSIVE InsertSeries(_, _)
InsertSeries(sorted, x) ==
    IF sorted = <<>> THEN <<x>>
    ELSE IF SeriesLess(x, Head(sorted)) THEN <<x>> \o sorted
    ELSE <<Head(sorted)>> \o InsertSeries(Tail(sorted), x)

RECURSIVE SortSeries(_)
SortSeries(data) ==
    IF data = <<>> THEN <<>>
    ELSE InsertSeries(SortSeries(SubSeq(data, 1, Len(data) - 1)), data[Len(data)])

\* the trace built from an accumulator, by the type of the definition that
\* created it: a bar or a line has the labels as x and the values as y, a
\* horizontal bar the values as x and the labels as y, a box only the
\* values as y and a horizontal box only the values as x; an axis that is
\* not set is empty.  The result is [err, trace].
TraceOf(ls) ==
    LET trace(x, y) == [name |-> ls.name, type |-> ls.def.type,
                        order |-> ls.def.order, x |-> x, y |-> y]
    IN  CASE ls.def.type = "bar" -> [err |-> FALSE, trace |-> trace(ls.labels, ls.values)]
          [] ls.def.type = "hbar" -> [err |-> FALSE, trace |-> trace(ls.values, ls.labels)]
          [] ls.def.type = "line" -> [err |-> FALSE, trace |-> trace(ls.labels, ls.values)]
          [] ls.def.type = "box" -> [err |-> FALSE, trace |-> trace(<<>>, ls.values)]
          [] ls.def.type = "hbox" -> [err |-> FALSE, trace |-> trace(ls.values, <<>>)]
          [] OTHER -> [err |-> TRUE, trace |-> trace(<<>>, <<>>)]

\* the loop over the sorted accumulators; the result is [err, traces]
TracesOf(data) ==
    [err |-> \E i \in DOMAIN data : TraceOf(data[i]).err,
     traces |-> [i \in DOMAIN data |-> TraceOf(data[i]).trace]]

\* the outer loop, over the datasets in the order dsorder in which the
\* range over the map seriesByDataSet delivers them
RECURSIVE SeriesLoop(_, _, _, _)
SeriesLoop(reg, defs, dsorder, traces) ==
    IF dsorder = <<>> THEN [reg |-> reg, traces |-> traces, err |-> FALSE]
    ELSE LET dsname == Head(dsorder)
             scan == AccumulateRows(<<>>, ResetIterator(reg[dsname]),
                                    SeriesOn(reg, defs, dsname))
             after == [reg EXCEPT ![dsname] = scan.ds]
             built == TracesOf(SortSeries(scan.data))
         IN  IF Err(scan.ds) THEN [reg |-> after, traces |-> <<>>, err |-> TRUE]
             ELSE IF built.err THEN [reg |-> after, traces |-> <<>>, err |-> TRUE]
             ELSE SeriesLoop(after, defs, Tail(dsorder), traces \o built.traces)

seriesTracesAll(reg, defs, dsorder) == SeriesLoop(reg, defs, dsorder, <<>>)

\* the orders in which a range over a map with the keys S can deliver them
MapOrders(S) ==
    {o \in [1..Cardinality(S) -> S] : \A i, j \in 1..Cardinality(S) : o[i] = o[j] => i = j}

(***************************************************************************)
(* SpecSeries: the series pass over a registry of datasets a and b, whose  *)
(* rows have a group field g, a label field k and a value field v.         *)
(***************************************************************************)
MaxSeriesRows == 3

SeriesRow(g, k, v) == [g |-> g, k |-> k, v |-> v]
SeriesRows ==
    {SeriesRow(StrV(g), StrV("p"), Int64V(1)) : g \in {"A", "B", "C"}}
        \cup {SeriesRow(StrV(g), StrV("q"), Int64V(2)) : g \in {"A", "B"}}
        \cup {SeriesRow(Int64V(5), StrV("p"), Int64V(1))}
SeriesRowSeqs == UNION {[1..n -> SeriesRows] : n \in 0..MaxSeriesRows}
OtherRowSeqs ==
    { <<>>, <<SeriesRow(StrV("A"), StrV("q"), Int64V(2))>> }

NameS == <<115>>
NameT == <<116>>

\* the lists of series definitions of the model's plot definitions
SeriesDefLists ==
    { <<SeriesDef("bar", <<>>, "a", "g", "*")>>,
      <<SeriesDef("line", NameS, "a", "g", "*")>>,
      <<SeriesDef("bar", NameT, "a", "g", "A"), SeriesDef("line", NameS, "a", "g", "B")>>,
      <<SeriesDef("bar", NameT, "a", "", ""), SeriesDef("line", NameS, "b", "", "")>>,
      <<SeriesDef("bar", NameT, "z", "", ""), SeriesDef("line", NameS, "a", "", "")>>,
      <<SeriesDef("bar", NameT, "a", "g", "5")>>,
      <<SeriesDef("bar", NameT, "a", "", ""), SeriesDef("line", NameT, "a", "", "")>>,
      <<SeriesDef("hbar", NameT, "a", "", ""), SeriesDef("line", NameS, "b", "", "")>>,
      <<SeriesDef("box", NameS, "a", "g", "*"), SeriesDef("hbox", NameT, "a", "", "")>> }

InitSeries ==
    /\ sdefs \in {AnnotateOrder(l, 0) : l \in SeriesDefLists}
    /\ sreg \in {[a |-> NewStaticDataSet(Materialize(ra)),
                  b |-> NewStaticDataSet(Materialize(rb))] :
                    ra \in SeriesRowSeqs, rb \in OtherRowSeqs}
    /\ straces = <<>>
    /\ spc = "ready"
    /\ InitIdleDiff
    /\ InitIdlePath
    /\ InitIdleOrg
    /\ InitIdleData
    /\ InitIdleGen
    /\ InitIdleRun
    /\ InitIdleFig
    /\ InitIdlePg
    /\ InitIdleBatch
    /\ InitIdleBeat

\* an earlier pass of the generation reads dataset a to the end
EarlierScan ==
    /\ spc = "ready"
    /\ sreg' = [sreg EXCEPT !["a"] = ScanSeries(@, <<>>).ds]
    /\ spc' = "scanned"
    /\ UNCHANGED <<sdefs, straces>>
    /\ UNCHANGED <<baseVars, runVars, figVars, pgVars, batchVars, beatVars>>

\* the call of seriesTraces
SeriesTracesCall ==
    \E dsorder \in MapOrders(SeriesDataSets(sreg, sdefs)) :
        /\ spc \in {"ready", "scanned"}
        /\ LET r == seriesTracesAll(sreg, sdefs, dsorder)
           IN  /\ sreg' = r.reg
               /\ straces' = r.traces
               /\ spc' = IF r.err THEN "error" ELSE "done"
        /\ UNCHANGED sdefs
        /\ UNCHANGED <<baseVars, runVars, figVars, pgVars, batchVars, beatVars>>

NextSeries == EarlierScan \/ SeriesTracesCall

SpecSeries == InitSeries /\ [][NextSeries]_vars

(***************************************************************************)
(* scalarTraces in full: several scalar definitions, each with a value     *)
(* field and, optionally, a delta dataset and field.                       *)
(***************************************************************************)
ScalarDef(name, dataset, value, deltaDataset, deltaValue) ==
    [name |-> name, type |-> "number", dataset |-> dataset, value |-> value,
     deltaDataset |-> deltaDataset, deltaValue |-> deltaValue,
     deltaType |-> "", increaseColor |-> "", decreaseColor |-> ""]

\* a scalar definition with deltaType: relative
Relative(d) == [d EXCEPT !.deltaType = "relative"]

\* a scalar definition with the colors of its delta
WithDeltaColors(d, increaseColor, decreaseColor) ==
    [d EXCEPT !.increaseColor = increaseColor, !.decreaseColor = decreaseColor]

\* cfg.Colors: the friendly names of the configuration and their hex values
Colors == [green |-> "#00ff00", red |-> "#ff0000"]

\* PlotConfig.MaybeLookupColor: the hex value of a friendly name, any other
\* text as it is
MaybeLookupColor(name) ==
    IF name \in DOMAIN Colors THEN Colors[name] ELSE name

\* datasetFieldsUsed[dsname]: the value fields of the definitions on a
\* known dataset, and the delta fields of those whose two datasets are known
FieldsUsed(reg, defs, dsname) ==
    {defs[i].value : i \in {j \in DOMAIN defs :
        defs[j].dataset = dsname /\ dsname \in DOMAIN reg}}
    \cup
    {defs[i].deltaValue : i \in {j \in DOMAIN defs :
        /\ defs[j].dataset \in DOMAIN reg
        /\ defs[j].deltaDataset = dsname /\ dsname \in DOMAIN reg}}
ScalarDataSets(reg, defs) ==
    {n \in DOMAIN reg : FieldsUsed(reg, defs, n) # {}}

\* dsValues: for every used dataset on which Next returned true, the
\* numbers read from the fields used
DsValues(reg, defs) ==
    [n \in {m \in ScalarDataSets(reg, defs) : HasNext(reg[m])} |->
        [f \in FieldsUsed(reg, defs, n) |->
            ScalarValue(Field(DataSetNext(reg[n]), f))]]

HasValue(dsValues, dsname, f) ==
    dsname \in DOMAIN dsValues /\ f \in DOMAIN dsValues[dsname]

\* the loop over the definitions that builds the indicator traces; the
\* result is [err, traces], without traces when the type of a scalar or of
\* a delta is not supported
RECURSIVE ScalarLoop(_, _, _, _)
ScalarLoop(dsValues, defs, idx, traces) ==
    IF idx > Len(defs) THEN [err |-> FALSE, traces |-> traces]
    ELSE LET d == defs[idx]
             number == [name |-> d.name, column |-> idx - 1, mode |-> "number",
                        value |-> dsValues[d.dataset][d.value], reference |-> 0,
                        increasing |-> "", decreasing |-> ""]
             delta == [number EXCEPT
                          !.mode = "number+delta",
                          !.reference = dsValues[d.deltaDataset][d.deltaValue],
                          !.increasing = MaybeLookupColor(d.increaseColor),
                          !.decreasing = MaybeLookupColor(d.decreaseColor)]
         IN  IF d.type # "number" THEN [err |-> TRUE, traces |-> <<>>]
             ELSE IF ~HasValue(dsValues, d.dataset, d.value)
             THEN ScalarLoop(dsValues, defs, idx + 1, traces)
             ELSE IF d.deltaDataset = ""
             THEN ScalarLoop(dsValues, defs, idx + 1, Append(traces, number))
             ELSE IF ~HasValue(dsValues, d.deltaDataset, d.deltaValue)
             THEN ScalarLoop(dsValues, defs, idx + 1, traces)
             ELSE IF d.deltaType # "relative" THEN [err |-> TRUE, traces |-> <<>>]
             ELSE ScalarLoop(dsValues, defs, idx + 1, Append(traces, delta))

\* the result is [reg, traces, err]: every used dataset has had one Next
\* call
scalarTracesAll(reg, defs) ==
    LET r == ScalarLoop(DsValues(reg, defs), defs, 1, <<>>)
    IN  [reg |-> [n \in DOMAIN reg |->
                     IF n \in ScalarDataSets(reg, defs) THEN DataSetNext(reg[n])
                     ELSE reg[n]],
         traces |-> r.traces,
         err |-> r.err]

(***************************************************************************)
(* tableTraces: heatmap tables with x labels from field k, y labels from   *)
(* field g and cell values from field v.                                   *)
(***************************************************************************)
\* a table definition as parsePlotDef admits it: the only type is heatmap
TableDef(name, dataset) ==
    [name |-> name, dataset |-> dataset, type |-> "heatmap", order |-> 0]

TablesOn(reg, defs, dsname) ==
    SelectSeq(defs, LAMBDA d : d.dataset = dsname)
TableDataSets(reg, defs) ==
    {defs[i].dataset : i \in DOMAIN defs} \cap DOMAIN reg

InSeq(seq, x) == \E i \in DOMAIN seq : seq[i] = x

\* an EnterRow that overwrites a cell that was already entered
RECURSIVE EnterRow_Overwrite(_, _, _)
EnterRow_Overwrite(data, ds, tables) ==
    IF tables = <<>> THEN [err |-> FALSE, data |-> data]
    ELSE LET t == Head(tables)
             i == IndexOfName(data, t.name)
             created == IF i = 0
                        THEN Append(data, [name |-> t.name, def |-> t,
                                           labelsX |-> <<>>, labelsY |-> <<>>,
                                           values |-> [c \in {} |-> NilV]])
                        ELSE data
             j == IF i = 0 THEN Len(created) ELSE i
             lt == created[j]
             labelX == Field(ds, "k")
             labelY == Field(ds, "g")
             valueZ == Field(ds, "v")
             entered ==
                 [lt EXCEPT
                     !.labelsX = IF InSeq(@, labelX) THEN @ ELSE Append(@, labelX),
                     !.labelsY = IF InSeq(@, labelY) THEN @ ELSE Append(@, labelY),
                     !.values = [c \in DOMAIN @ \cup {<<labelX, labelY>>} |->
                                    IF c = <<labelX, labelY>> THEN valueZ ELSE @[c]]]
         IN  EnterRow_Overwrite([created EXCEPT ![j] = entered], ds, Tail(tables))

\* the inner loop: the current row of ds entered into each table in turn;
\* the result is [err, data]
RECURSIVE EnterRow(_, _, _)
EnterRow(data, ds, tables) ==
    IF tables = <<>> THEN [err |-> FALSE, data |-> data]
    ELSE LET t == Head(tables)
             i == IndexOfName(data, t.name)
             created == IF i = 0
                        THEN Append(data, [name |-> t.name, def |-> t,
                                           labelsX |-> <<>>, labelsY |-> <<>>,
                                           values |-> [c \in {} |-> NilV]])
                        ELSE data
             j == IF i = 0 THEN Len(created) ELSE i
             lt == created[j]
             labelX == Field(ds, "k")
             labelY == Field(ds, "g")
             valueZ == Field(ds, "v")
             entered ==
                 [lt EXCEPT
                     !.labelsX = IF InSeq(@, labelX) THEN @ ELSE Append(@, labelX),
                     !.labelsY = IF InSeq(@, labelY) THEN @ ELSE Append(@, labelY),
                     !.values = [c \in DOMAIN @ \cup {<<labelX, labelY>>} |->
                                    IF c = <<labelX, labelY>> THEN valueZ ELSE @[c]]]
         IN  IF <<labelX, labelY>> \in DOMAIN lt.values
             THEN [err |-> TRUE, data |-> created]
             ELSE EnterRow([created EXCEPT ![j] = entered], ds, Tail(tables))

\* the loop over the rows of one dataset; the result is [err, ds, data]
RECURSIVE EnterRows(_, _, _)
EnterRows(data, ds, tables) ==
    IF ~HasNext(ds) THEN [err |-> Err(ds), ds |-> ds, data |-> data]
    ELSE LET cur == DataSetNext(ds)
             r == EnterRow(data, cur, tables)
         IN  IF r.err THEN [err |-> TRUE, ds |-> cur, data |-> r.data]
             ELSE EnterRows(r.data, cur, tables)

TableLess(a, b) ==
    IF a.def.order # b.def.order THEN a.def.order < b.def.order
    ELSE LexLess(a.name, b.name)

RECURSIVE InsertTable(_, _)
InsertTable(sorted, x) ==
    IF sorted = <<>> THEN <<x>>
    ELSE IF TableLess(x, Head(sorted)) THEN <<x>> \o sorted
    ELSE <<Head(sorted)>> \o InsertTable(Tail(sorted), x)

RECURSIVE SortTables(_)
SortTables(data) ==
    IF data = <<>> THEN <<>>
    ELSE InsertTable(SortTables(SubSeq(data, 1, Len(data) - 1)), data[Len(data)])

\* LabeledTable.ValueZ: one row per y label, nil where no cell was entered
ValueZ(lt) ==
    [y \in DOMAIN lt.labelsY |->
        [x \in DOMAIN lt.labelsX |->
            IF <<lt.labelsX[x], lt.labelsY[y]>> \in DOMAIN lt.values
            THEN lt.values[<<lt.labelsX[x], lt.labelsY[y]>>]
            ELSE NilV]]

HeatmapOf(lt) ==
    [name |-> lt.name, order |-> lt.def.order,
     x |-> lt.labelsX, y |-> lt.labelsY, z |-> ValueZ(lt)]

\* the outer loop, over the datasets in the order the range over the map
\* tablesByDataSet delivers them; a duplicate cell, an iteration error or a
\* table of a type other than heatmap ends it with an error; the result is
\* [err, reg, traces]
RECURSIVE TableLoop(_, _, _, _)
TableLoop(reg, defs, dsorder, traces) ==
    IF dsorder = <<>> THEN [err |-> FALSE, reg |-> reg, traces |-> traces]
    ELSE LET dsname == Head(dsorder)
             scan == EnterRows(<<>>, ResetIterator(reg[dsname]),
                               TablesOn(reg, defs, dsname))
             after == [reg EXCEPT ![dsname] = scan.ds]
             sorted == SortTables(scan.data)
             unsupported == \E i \in DOMAIN sorted : sorted[i].def.type # "heatmap"
         IN  IF scan.err \/ unsupported
             THEN [err |-> TRUE, reg |-> after, traces |-> <<>>]
             ELSE TableLoop(after, defs, Tail(dsorder),
                            traces \o [i \in DOMAIN sorted |-> HeatmapOf(sorted[i])])

tableTraces(reg, defs, dsorder) == TableLoop(reg, defs, dsorder, <<>>)

(***************************************************************************)
(* SpecFig: generateFig with its error paths.  The inputs are the rows and *)
(* the end-of-iteration error of the two source datasets a and b, and one  *)
(* of a list of plot definitions.  A step that returns an error ends the   *)
(* generation with "error"; an index out of range ends it with "panic".    *)
(***************************************************************************)
MaxFigRows == 2

FigRows ==
    { SeriesRow(StrV("A"), StrV("p"), Int64V(1)), SeriesRow(StrV("A"), StrV("p"), Int64V(2)),
      SeriesRow(StrV("B"), StrV("p"), Int64V(1)), SeriesRow(StrV("A"), StrV("q"), Int64V(2)),
      SeriesRow(StrV("A"), StrV("p"), IntV(3)), SeriesRow(StrV("A"), StrV("p"), Float64V(4)) }
FigRowSeqs == UNION {[1..n -> FigRows] : n \in 0..MaxFigRows}

ComputedDef(name, function, refs) ==
    [name |-> name, function |-> function, refs |-> refs]

FigDef(computed, series, scalars, tables) ==
    [computed |-> computed, series |-> AnnotateOrder(series, 0),
     scalars |-> scalars, tables |-> AnnotateOrder(tables, 0)]

SeriesA == SeriesDef("bar", NameT, "a", "", "")
SeriesZ == SeriesDef("bar", NameS, "z", "", "")
ScalarA == ScalarDef("s2", "a", "v", "", "")
ScalarB == ScalarDef("s1", "b", "v", "", "")
ScalarZ == ScalarDef("s0", "z", "v", "", "")
TableA == TableDef(NameT, "a")
TableZ == TableDef(NameS, "z")

\* the plot definitions of the model
FigDefs ==
    { FigDef(<<>>, <<SeriesA>>, <<ScalarB>>, <<TableA>>),
      FigDef(<<>>, <<SeriesZ, SeriesA>>, <<ScalarZ, ScalarB>>, <<TableZ, TableA>>),
      FigDef(<<>>, <<SeriesZ, SeriesA>>, <<ScalarA>>, <<>>),
      FigDef(<<>>, <<>>, <<ScalarDef("s4", "b", "w", "", ""), ScalarA>>, <<>>),
      FigDef(<<>>, <<>>, <<Relative(ScalarDef("s5", "a", "v", "b", "w")), ScalarB>>, <<>>),
      FigDef(<<>>, <<>>, <<Relative(ScalarDef("s6", "a", "v", "b", "v"))>>, <<>>),
      FigDef(<<>>, <<>>,
             <<WithDeltaColors(Relative(ScalarDef("s7", "b", "v", "a", "v")),
                               "green", "#aa0000")>>,
             <<>>),
      FigDef(<<>>, <<>>, <<ScalarB, ScalarDef("s8", "a", "v", "b", "v")>>, <<>>),
      FigDef(<<ComputedDef("d", "diff", <<>>)>>, <<>>, <<ScalarB>>, <<>>),
      FigDef(<<ComputedDef("d", "diff", <<"a">>)>>, <<>>, <<ScalarB>>, <<>>),
      FigDef(<<ComputedDef("d", "diff", <<"a", "b">>)>>, <<>>,
             <<ScalarDef("s3", "d", "value", "", "")>>, <<>>),
      FigDef(<<ComputedDef("d", "diff", <<"a", "b", "a">>)>>, <<>>, <<ScalarB>>, <<>>),
      FigDef(<<ComputedDef("d", "sum", <<"a", "b">>)>>, <<>>, <<ScalarB>>, <<>>) }

InitFig ==
    /\ fsrc \in [a : [rows : FigRowSeqs, err : BOOLEAN],
                 b : [rows : OtherRowSeqs, err : BOOLEAN]]
    /\ fdef \in FigDefs
    /\ freg = [n \in {} |-> 0]
    /\ fpc = "fetch"
    /\ fresult = "running"
    /\ ftraces = NoTraces
    /\ fnext = 1
    /\ fcancel = FALSE
    /\ InitIdleDiff
    /\ InitIdlePath
    /\ InitIdleOrg
    /\ InitIdleData
    /\ InitIdleGen
    /\ InitIdleRun
    /\ InitIdleSeries
    /\ InitIdlePg
    /\ InitIdleBatch
    /\ InitIdleBeat

\* pd.Datasets: the declared datasets, in the order of the definition
FigDataSets == <<"a", "b">>

\* the context of the generation is cancelled: a sibling task of the
\* group has failed, or the batch was interrupted
FigCancel ==
    /\ fresult = "running"
    /\ ~fcancel
    /\ fcancel' = TRUE
    /\ UNCHANGED <<fsrc, fdef, freg, fpc, fresult, ftraces, fnext>>
    /\ UNCHANGED <<baseVars, runVars, seriesVars, pgVars, batchVars, beatVars>>

\* the head of an iteration of the loop over pd.Datasets: the checkpoint
\* on the context and the lookup of the source; then GetDataSet is called
FigFetchCheckpoint ==
    \E exists \in BOOLEAN :
        /\ fpc = "fetch"
        /\ IF fcancel
           THEN fpc' = "done" /\ fresult' = "cancelled"
           ELSE IF ~exists
           THEN fpc' = "done" /\ fresult' = "error"
           ELSE fpc' = "query" /\ UNCHANGED fresult
        /\ UNCHANGED <<fsrc, fdef, freg, ftraces, fnext, fcancel>>
        /\ UNCHANGED <<baseVars, runVars, seriesVars, pgVars, batchVars, beatVars>>

\* GetDataSet returns, when the query has run: its dataset is registered,
\* or its error ends the generation.  The context is not looked at again
\* before the head of the next iteration.
FigFetch ==
    \E ok \in BOOLEAN :
        /\ fpc = "query"
        /\ IF ~ok
           THEN fpc' = "done" /\ fresult' = "error" /\ UNCHANGED <<freg, fnext>>
           ELSE LET n == FigDataSets[fnext]
                    ds == WithErr(NewStaticDataSet(Materialize(fsrc[n].rows)),
                                  fsrc[n].err)
                IN  /\ freg' = [m \in DOMAIN freg \cup {n} |->
                                   IF m = n THEN ds ELSE freg[m]]
                    /\ IF fnext = Len(FigDataSets)
                       THEN fpc' = "compute" /\ fnext' = 1
                       ELSE fpc' = "fetch" /\ fnext' = fnext + 1
                    /\ UNCHANGED fresult
        /\ UNCHANGED <<fsrc, fdef, ftraces, fcancel>>
        /\ UNCHANGED <<baseVars, runVars, seriesVars, pgVars, batchVars, beatVars>>

\* one iteration of the loop over pd.Computed; the result is [status, reg]
ComputeOne(reg, cds) ==
    IF cds.name \in DOMAIN reg THEN [status |-> "error", reg |-> reg]
    ELSE IF \E i \in DOMAIN cds.refs : cds.refs[i] \notin DOMAIN reg
    THEN [status |-> "error", reg |-> reg]
    ELSE IF cds.function # "diff" THEN [status |-> "error", reg |-> reg]
    ELSE IF Len(cds.refs) < 2 THEN [status |-> "panic", reg |-> reg]
    ELSE IF Len(cds.refs) # 2 THEN [status |-> "error", reg |-> reg]
    ELSE LET r == ComputeBinaryPredicate(reg, cds.refs[1], cds.refs[2])
         IN  IF r.err THEN [status |-> "error", reg |-> r.reg]
             ELSE [status |-> "ok",
                   reg |-> [n \in DOMAIN r.reg \cup {cds.name} |->
                               IF n = cds.name THEN r.out ELSE r.reg[n]]]

\* the head of an iteration of the loop over pd.Computed: the end of the
\* loop, or the checkpoint on the context
FigComputeCheckpoint ==
    /\ fpc = "compute"
    /\ IF fnext > Len(fdef.computed)
       THEN fpc' = "series" /\ UNCHANGED fresult
       ELSE IF fcancel
       THEN fpc' = "done" /\ fresult' = "cancelled"
       ELSE fpc' = "derive" /\ UNCHANGED fresult
    /\ UNCHANGED <<fsrc, fdef, freg, ftraces, fnext, fcancel>>
    /\ UNCHANGED <<baseVars, runVars, seriesVars, pgVars, batchVars, beatVars>>

\* the body of an iteration of the loop over pd.Computed
FigCompute ==
    /\ fpc = "derive"
    /\ LET r == ComputeOne(freg, fdef.computed[fnext])
       IN  /\ freg' = r.reg
           /\ IF r.status = "ok"
              THEN fpc' = "compute" /\ fnext' = fnext + 1 /\ UNCHANGED fresult
              ELSE fpc' = "done" /\ fresult' = r.status /\ UNCHANGED fnext
    /\ UNCHANGED <<fsrc, fdef, ftraces, fcancel>>
    /\ UNCHANGED <<baseVars, runVars, seriesVars, pgVars, batchVars, beatVars>>

FigSeries ==
    \E dsorder \in MapOrders(SeriesDataSets(freg, fdef.series)) :
        /\ fpc = "series"
        /\ LET r == seriesTracesAll(freg, fdef.series, dsorder)
           IN  /\ freg' = r.reg
               /\ IF r.err
                  THEN fpc' = "done" /\ fresult' = "error" /\ UNCHANGED ftraces
                  ELSE /\ fpc' = "scalars"
                       /\ ftraces' = [ftraces EXCEPT !.series = r.traces]
                       /\ UNCHANGED fresult
        /\ UNCHANGED <<fsrc, fdef, fnext, fcancel>>
        /\ UNCHANGED <<baseVars, runVars, seriesVars, pgVars, batchVars, beatVars>>

FigScalars ==
    /\ fpc = "scalars"
    /\ LET r == scalarTracesAll(freg, fdef.scalars)
       IN  /\ freg' = r.reg
           /\ IF r.err
              THEN fpc' = "done" /\ fresult' = "error" /\ UNCHANGED ftraces
              ELSE /\ fpc' = "tables"
                   /\ ftraces' = [ftraces EXCEPT !.scalars = r.traces]
                   /\ UNCHANGED fresult
    /\ UNCHANGED <<fsrc, fdef, fnext, fcancel>>
    /\ UNCHANGED <<baseVars, runVars, seriesVars, pgVars, batchVars, beatVars>>

FigTables ==
    \E dsorder \in MapOrders(TableDataSets(freg, fdef.tables)) :
        /\ fpc = "tables"
        /\ LET r == tableTraces(freg, fdef.tables, dsorder)
           IN  /\ freg' = r.reg
               /\ IF r.err
                  THEN fresult' = "error" /\ UNCHANGED ftraces
                  ELSE /\ fresult' = "ok"
                       /\ ftraces' = [ftraces EXCEPT !.tables = r.traces]
        /\ fpc' = "done"
        /\ UNCHANGED <<fsrc, fdef, fnext, fcancel>>
        /\ UNCHANGED <<baseVars, runVars, seriesVars, pgVars, batchVars, beatVars>>

NextFig ==
    \/ FigCancel
    \/ FigFetchCheckpoint
    \/ FigFetch
    \/ FigComputeCheckpoint
    \/ FigCompute
    \/ FigSeries
    \/ FigScalars
    \/ FigTables

SpecFig == InitFig /\ [][NextFig]_vars

(***************************************************************************)
(* SpecPg: one PgDataSource shared by goroutines that each call GetDataSet *)
(* once, in any interleaving.  poolOnce.Do orders the initialisation      *)
(* before the return of every Do; the accesses of p.err after Do are not   *)
(* ordered by anything.                                                    *)
(***************************************************************************)
MaxCalls == 3

Calls == 1..MaxCalls

\* the values of p.err: nil, an error of the initialisation, or the error
\* stored after a failed Acquire
InitErrors == {"unable to parse connection string", "unable to connect to database"}
AcquireError == "acquire: unable to connect to database"

InitPg ==
    /\ ppool = "nil"
    /\ perr = "nil"
    /\ ponce = "new"
    /\ pinits = 0
    /\ cpc = [c \in Calls |-> "start"]
    /\ cret = [c \in Calls |-> "none"]
    /\ cacq = [c \in Calls |-> FALSE]
    /\ InitIdleDiff
    /\ InitIdlePath
    /\ InitIdleOrg
    /\ InitIdleData
    /\ InitIdleGen
    /\ InitIdleRun
    /\ InitIdleSeries
    /\ InitIdleFig
    /\ InitIdleBatch
    /\ InitIdleBeat

\* p.poolOnce.Do: the first caller runs the function, a caller that finds
\* it running waits, a caller that finds it done returns at once
PoolOnceDo(c) ==
    /\ cpc[c] = "start"
    /\ ponce # "running"
    /\ IF ponce = "new"
       THEN ponce' = "running" /\ cpc' = [cpc EXCEPT ![c] = "init"]
       ELSE UNCHANGED ponce /\ cpc' = [cpc EXCEPT ![c] = "check"]
    /\ UNCHANGED <<ppool, perr, pinits, cret, cacq>>
    /\ UNCHANGED <<baseVars, runVars, seriesVars, figVars, batchVars, beatVars>>

\* the function passed to Do: ParseConfig and NewWithConfig, each of which
\* may fail; p.err or p.pool is set
PoolInit(c) ==
    /\ cpc[c] = "init"
    /\ \E outcome \in {"pool"} \cup InitErrors :
           IF outcome = "pool"
           THEN ppool' = "pool" /\ UNCHANGED perr
           ELSE perr' = outcome /\ UNCHANGED ppool
    /\ pinits' = pinits + 1
    /\ ponce' = "done"
    /\ cpc' = [cpc EXCEPT ![c] = "check"]
    /\ UNCHANGED <<cret, cacq>>
    /\ UNCHANGED <<baseVars, runVars, seriesVars, figVars, batchVars, beatVars>>

\* the values a read of p.err may return: the stored one, and, when it was
\* stored after a failed Acquire, without synchronisation, also the nil it
\* replaced
VisibleErr == IF perr = AcquireError THEN {"nil", AcquireError} ELSE {perr}

\* if p.err != nil { return nil, p.err }
CheckErr(c) ==
    /\ cpc[c] = "check"
    /\ \E seen \in VisibleErr :
           IF seen # "nil"
           THEN /\ cret' = [cret EXCEPT ![c] = seen]
                /\ cpc' = [cpc EXCEPT ![c] = "returned"]
           ELSE /\ cpc' = [cpc EXCEPT ![c] = "acquire"]
                /\ UNCHANGED cret
    /\ UNCHANGED <<ppool, perr, ponce, pinits, cacq>>
    /\ UNCHANGED <<baseVars, runVars, seriesVars, figVars, batchVars, beatVars>>

\* conn, err := p.pool.Acquire(ctx)
Acquire(c) ==
    /\ cpc[c] = "acquire"
    /\ cacq' = [cacq EXCEPT ![c] = TRUE]
    /\ \E ok \in BOOLEAN :
           cpc' = [cpc EXCEPT ![c] = IF ok THEN "query" ELSE "store"]
    /\ UNCHANGED <<ppool, perr, ponce, pinits, cret>>
    /\ UNCHANGED <<baseVars, runVars, seriesVars, figVars, batchVars, beatVars>>

\* the failed Acquire: p.err is assigned and "execute query: ..." returned
StoreErr(c) ==
    /\ cpc[c] = "store"
    /\ perr' = AcquireError
    /\ cret' = [cret EXCEPT ![c] = "execute query"]
    /\ cpc' = [cpc EXCEPT ![c] = "returned"]
    /\ UNCHANGED <<ppool, ponce, pinits, cacq>>
    /\ UNCHANGED <<baseVars, runVars, seriesVars, figVars, batchVars, beatVars>>

\* conn.Query and the row loop: a dataset, or one of the three errors
Query(c) ==
    /\ cpc[c] = "query"
    /\ \E outcome \in {"dataset", "execute query", "read row values", "collect rows"} :
           cret' = [cret EXCEPT ![c] = outcome]
    /\ cpc' = [cpc EXCEPT ![c] = "returned"]
    /\ UNCHANGED <<ppool, perr, ponce, pinits, cacq>>
    /\ UNCHANGED <<baseVars, runVars, seriesVars, figVars, batchVars, beatVars>>

CallPoolOnceDo == \E c \in Calls : PoolOnceDo(c)
CallPoolInit == \E c \in Calls : PoolInit(c)
CallCheckErr == \E c \in Calls : CheckErr(c)
CallAcquire == \E c \in Calls : Acquire(c)
CallStoreErr == \E c \in Calls : StoreErr(c)
CallQuery == \E c \in Calls : Query(c)

NextPg ==
    \/ CallPoolOnceDo
    \/ CallPoolInit
    \/ CallCheckErr
    \/ CallAcquire
    \/ CallStoreErr
    \/ CallQuery

SpecPg == InitPg /\ [][NextPg]_vars

\* the numeric types diff is specified for, and the widest common type of
\* two of them: float64 if either is float64, else int64 if either is
\* int64, else int
IsNumeric(v) == v.t \in {"int", "int64", "float64"}
Widest(x, y) ==
    IF "float64" \in {x.t, y.t} THEN "float64"
    ELSE IF "int64" \in {x.t, y.t} THEN "int64" ELSE "int"

\* C2: diff2 returns x - y in the widest common numeric type for every pair
\* of numeric operands (int, int64, float64 in any combination and order),
\* and a type error and no value for every other pair.
C2_DiffAllNumericPairs ==
    pres # NoResult =>
        IF IsNumeric(px) /\ IsNumeric(py)
        THEN pres = DiffOk(Val(Widest(px, py), px.n - py.n, ""))
        ELSE pres = DiffErr

\* the dated artifacts of a plot name in the tree, and the greatest path
DatedArtifacts(name) ==
    {p \in DOMAIN files : \E t \in OrgTimes : p = FilenameOf[name, ofreq, t]}
Greatest(S) == CHOOSE p \in S : \A q \in S : ~LexLess(p, q)

\* latest/name.json exists and holds the bytes of the dated artifact of the
\* name with the greatest path
LatestIsGreatest(name) ==
    /\ LatestFilename(name) \in DOMAIN files
    /\ files[LatestFilename(name)].data = files[Greatest(DatedArtifacts(name))].data

\* C6: after any sequence of completed WritePlot calls, with basis times in
\* any order, latest/name.json exists and holds the bytes most recently
\* written to the dated artifact with the greatest canonical path.
C6_LatestHoldsGreatestDated ==
    (~crashed /\ DOMAIN oworkers = {}) =>
        \A name \in Names : DatedArtifacts(name) # {} => LatestIsGreatest(name)

\* C7: IsLatest is true iff no existing dated artifact of the name that
\* matches the frequency's pattern has a path that sorts strictly after the
\* candidate's: true when the name has no artifact yet, true when the
\* candidate exists and is the greatest, false when a later-dated artifact
\* that the pattern enumerates exists.
C7_IsLatestIffNoLaterPath ==
    \A name \in Names, t \in OrgTimes :
        LET cand == FilenameOf[name, ofreq, t]
            enumerated == {p \in DOMAIN files : Matches(p, GlobPattern(name, ofreq))}
            later == {p \in enumerated : LexLess(cand, p)}
            answer == IsLatest(files, name, ofreq, t)
        IN  /\ answer <=> (later = {})
            /\ DatedArtifacts(name) = {} => answer
            /\ (cand \in enumerated /\ \A p \in enumerated : ~LexLess(cand, p)) => answer
            /\ (\E p \in DatedArtifacts(name) \cap enumerated : LexLess(cand, p)) => ~answer

\* C7 witness: the artifact of x for 2023-05-09 exists; for x a candidate of
\* 2023-05-08 is not the latest and one of 2023-05-09 is, and for y, which
\* has no artifact, the candidate of 2023-05-08 is the latest
C7_Witness ==
    /\ ofreq \in Frequencies
    /\ FilenameOf[NameX, ofreq, DateTime(2023, 5, 9, 9, 0)] \in DOMAIN files
    /\ DatedArtifacts(NameY) = {}
    /\ ofreq # "weekly" => ~IsLatest(files, NameX, ofreq, DateTime(2023, 5, 8, 10, 0))
    /\ IsLatest(files, NameX, ofreq, DateTime(2023, 5, 9, 9, 0))
    /\ IsLatest(files, NameY, ofreq, DateTime(2023, 5, 8, 10, 0))
    /\ ofreq = "daily"

\* C10: when a run died between the two writes of WritePlot, the next run
\* of the same plot definition that completes, without the force flag,
\* leaves latest/name.json equal to the dated artifact with the greatest path.
C10_NextRunRepairsLatest ==
    DOMAIN oworkers = {} =>
        \A name \in Names : orecent[name] = "afterCrash" => LatestIsGreatest(name)

\* the bytes of "/out/2023/05/08/x.json" and "/out/2023/05/08/10/x.json"
ExampleDaily ==
    <<47, 111, 117, 116, 47, 50, 48, 50, 51, 47, 48, 53, 47, 48, 56,
      47, 120, 46, 106, 115, 111, 110>>
ExampleHourly ==
    <<47, 111, 117, 116, 47, 50, 48, 50, 51, 47, 48, 53, 47, 48, 56,
      47, 49, 48, 47, 120, 46, 106, 115, 111, 110>>

Computed == fname1 # <<>>

\* C9: Filename gives base/YYYY/MM/DD/name.json for daily and
\* base/YYYY/MM/DD/HH/name.json for hourly, zero-padded, of the basis time
\* truncated to the day resp. the hour: the example paths of 2023-05-08
\* 10:00, the fixed widths, and two basis times give the same path iff they
\* lie in the same UTC day (daily) or the same UTC hour (hourly).
C9_FilenameDailyHourly ==
    Computed =>
        /\ (ffreq = "daily" /\ ft1 = DateTime(2023, 5, 8, 10, 0)) => fname1 = ExampleDaily
        /\ (ffreq = "hourly" /\ ft1 = DateTime(2023, 5, 8, 10, 0)) => fname1 = ExampleHourly
        /\ ffreq = "daily" =>
              /\ Len(fname1) = Len(Base) + 1 + 10 + 1 + Len(NameX) + Len(JsonExt)
              /\ (fname1 = fname2) <=> (ft1 \div 1440 = ft2 \div 1440)
        /\ ffreq = "hourly" =>
              /\ Len(fname1) = Len(Base) + 1 + 13 + 1 + Len(NameX) + Len(JsonExt)
              /\ (fname1 = fname2) <=> (ft1 \div 60 = ft2 \div 60)

\* C9 witness: a daily pair in one day at different hours, paths computed
C9_Witness ==
    /\ Computed /\ ffreq = "daily"
    /\ ft1 = DateTime(2023, 5, 8, 10, 0) /\ ft2 = DateTime(2023, 5, 8, 23, 30)
    /\ fname1 = fname2

\* C8 as stated: for weekly frequency the path is that of daily for the
\* same basis time (the year/month/day of t itself).
C8_WeeklyEqualsDaily ==
    (Computed /\ ffreq = "weekly") => fname1 = Filename(NameX, "daily", ft1)

\* C8 amended: the weekly path has the day-grained shape of a daily path but
\* carries the date of the Monday 00:00 UTC that starts the week of t: it is
\* the daily path of that Monday, and equals the daily path of t itself
\* exactly when t falls on a Monday.
C8_WeeklyIsDailyOfWeekStart ==
    (Computed /\ ffreq = "weekly") =>
        LET monday == (ft1 \div (7 * 1440)) * (7 * 1440) IN
        /\ fname1 = Filename(NameX, "daily", monday)
        /\ Len(fname1) = Len(Filename(NameX, "daily", ft1))
        /\ (fname1 = Filename(NameX, "daily", ft1)) <=> ((ft1 \div 1440) % 7 = 0)
        /\ (fname1 = fname2) <=> (ft1 \div (7 * 1440) = ft2 \div (7 * 1440))

\* C8 witness: a weekly path computed for a Sunday, six days after its Monday
C8_Witness ==
    /\ Computed /\ ffreq = "weekly"
    /\ ft1 = DateTime(2023, 5, 14, 12, 0)
    /\ fname1 = Filename(NameX, "daily", DateTime(2023, 5, 8, 0, 0))

\* the derive operation has run and returned a dataset
Derived == ComputedName \in DOMAIN dataSets

\* the rows of the two sources the computed dataset refers to
LeftSource == srcRows[pd.computed[1]]
RightSource == srcRows[pd.computed[2]]

\* the right rows carrying the key text of a left row, by position
RightMatches(row, right) ==
    {j \in 1..Len(right) : stringify(right[j].k) = stringify(row.k)}
Last(S) == CHOOSE j \in S : \A i \in S : i <= j

\* one row <<key, predicate(left value, value of the last right row with
\* the key)>> for each left row whose key text occurs on the right, in
\* left order
RECURSIVE JoinRows(_, _)
JoinRows(left, right) ==
    IF left = <<>> THEN <<>>
    ELSE LET row == Head(left)
             js == RightMatches(row, right)
         IN  (IF js = {} THEN <<>>
              ELSE << <<row.k, diff2(row.v, right[Last(js)].v).val>> >>)
                 \o JoinRows(Tail(left), right)

\* the rows of a derived dataset under the names the code gives its columns
OutputRows(ds) ==
    [i \in 1..NumRows(ds) |-> <<ds.data["field"][i], ds.data["value"][i]>>]

\* C1: derive returns exactly one output row for each left row whose join
\* key text occurs among the right side's keys, in left-scan order, and no
\* other row; each value is predicate(left value, value of the last right
\* row with that key).
C1_DeriveJoinsLeftWithLastRight ==
    Derived =>
        OutputRows(dataSets[ComputedName]) = JoinRows(LeftSource, RightSource)

\* an output row made of a left row and a right row with the same key text
IsJoinOf(key, value, left, right) ==
    \E i \in 1..Len(left), j \in 1..Len(right) :
        /\ stringify(left[i].k) = stringify(right[j].k)
        /\ key = left[i].k
        /\ ~diff2(left[i].v, right[j].v).err
        /\ value = diff2(left[i].v, right[j].v).val

\* C3 as stated: every derived dataset has exactly the two fields "key"
\* and "value", holding the matched left row's join key and the predicate
\* result.
C3_FieldsKeyAndValue ==
    Derived =>
        LET data == dataSets[ComputedName].data
        IN  /\ DOMAIN data = {"key", "value"}
            /\ Len(data["key"]) = Len(data["value"])
            /\ \A i \in 1..Len(data["key"]) :
                  IsJoinOf(data["key"][i], data["value"][i], LeftSource, RightSource)

\* C3: a derived dataset with at least one row has exactly the two fields
\* "field" and "value", row by row the matched left row's join key and the
\* predicate result; a derived dataset without rows has no field.
C3_FieldsFieldAndValue ==
    Derived =>
        LET data == dataSets[ComputedName].data
        IN  IF NumRows(dataSets[ComputedName]) = 0 THEN DOMAIN data = {}
            ELSE /\ DOMAIN data = {"field", "value"}
                 /\ Len(data["field"]) = Len(data["value"])
                 /\ \A i \in 1..Len(data["field"]) :
                       IsJoinOf(data["field"][i], data["value"][i],
                                LeftSource, RightSource)

\* C3 witness: a derive of a with b that returned two rows
C3_Witness ==
    /\ Derived
    /\ pd.computed = <<"a", "b">>
    /\ NumRows(dataSets[ComputedName]) = 2
    /\ gpc = "series"

\* the rows of a dataset, whatever its cursor
AllRows(ds) ==
    [i \in 1..NumRows(ds) |-> [f \in DOMAIN ds.data |-> ds.data[f][i]]]

\* C4: after any sequence of Next, Field and ResetIterator calls, a full
\* scan observes the same rows and field values as the full scan before
\* it, which are the rows the source materialized, and the query has been
\* executed once.
C4_FullScanRepeats ==
    /\ (lastFull.done /\ prevFull.done) => lastFull.rows = prevFull.rows
    /\ lastFull.done => lastFull.rows = AllRows(dset)
    /\ queries <= 1

\* C4 witness: two full scans of a dataset of two different rows are done,
\* and a third scan, begun by a ResetIterator, is on the second row
C4_Witness ==
    /\ lastFull.done /\ prevFull.done
    /\ Len(lastFull.rows) = 2
    /\ lastFull.rows[1] # lastFull.rows[2]
    /\ fromStart /\ dset.cursor = 2
    /\ queries = 1

\* C5: for a scalar whose backing dataset has at least one row, the value
\* taken is that of row 1 (here for the float64 and int64 values the pass
\* converts), also when the dataset was scanned earlier in the generation
\* by derive or by the series pass.
C5_ScalarReadsFirstRow ==
    (/\ gpc = "done"
     /\ ~gerr
     /\ srcRows[pd.scalar] # <<>>
     /\ srcRows[pd.scalar][1].v.t \in {"float64", "int64"})
        => /\ scalarOut.emitted
           /\ scalarOut.value = srcRows[pd.scalar][1].v.n

\* the plot of the worker is due: forced, or its dated file is missing or
\* strictly older than the definition file in the tree the worker started on
Due ==
    LET missing == RunFile \notin DOMAIN rbefore
        earlier == ~missing /\ rbefore[RunFile].mtime < defMtime
    IN  rforce \/ missing \/ earlier

\* C11: in a non-validate run of a definition that was read and parsed, the
\* plot is generated (generateFig is called,
\* and its document, if it returns one and no write fails, is written to
\* the dated file) iff the force flag is set, or the dated file does not
\* exist, or its modification time is strictly earlier than the definition
\* file's (equal times are fresh), in the tree the worker started on;
\* otherwise no source is queried and the worker creates or modifies no
\* file.
C11_WrittenIffForcedMissingOrStale ==
    (rpc = "done" /\ ~rvalidate /\ rlstat # "none") =>
        /\ rqueried <=> Due
        /\ (Due /\ rret = "nil") =>
              /\ RunFile \in DOMAIN rwrote
              /\ rwrote[RunFile] = rfig
              /\ RunFile \in DOMAIN files
              /\ files[RunFile].mtime = now
        /\ (Due /\ rfig = "error") => DOMAIN rwrote = {}
        /\ ~Due => DOMAIN rwrote = {}

\* the statement of C11 for the runs whose Lstat succeeded or reported that
\* the file does not exist
C11_HoldsWhenLstatSucceeds ==
    rlstat = "ok" => C11_WrittenIffForcedMissingOrStale

\* a non-validate run without the force flag whose Lstat failed skips the
\* plot, whatever the state of the dated file: nothing is queried or written
C11_FailedLstatSkipsThePlot ==
    (rpc = "done" /\ ~rvalidate /\ ~rforce /\ rlstat = "error") =>
        /\ ~rqueried
        /\ DOMAIN rwrote = {}
        /\ rret = "nil"

\* a run as old as the definition file is left alone: without the force
\* flag nothing was queried and the tree is as it was
C11_FreshFileLeftAlone ==
    /\ rpc = "done" /\ ~rvalidate /\ ~rforce /\ rlstat = "ok"
    /\ RunFile \in DOMAIN rbefore
    /\ rbefore[RunFile].mtime = defMtime
    /\ ~rqueried
    /\ DOMAIN rwrote = {}
    /\ files = rbefore

\* the plot definition has one series definition, with wildcard grouping
OneWildcardSeries ==
    /\ Len(sdefs) = 1
    /\ sdefs[1].groupField = "g"
    /\ sdefs[1].groupValue = "*"

\* the rows of the dataset of the first definition, and those of a group
SeriesSource == AllRows(sreg[sdefs[1].dataset])
RowsOfGroup(g) == SelectSeq(SeriesSource, LAMBDA row : row.g = g)
Column(rows, f) == [i \in DOMAIN rows |-> rows[i][f]]

\* a trace holds the rows: their values on the value axis of its type and,
\* for the types that have a label axis, their labels on it
TraceLabels(tr) == IF tr.type = "hbar" THEN tr.y ELSE tr.x
TraceValues(tr) == IF tr.type \in {"hbar", "hbox"} THEN tr.x ELSE tr.y
HoldsRows(tr, rows) ==
    /\ TraceValues(tr) = Column(rows, "v")
    /\ tr.type \in {"bar", "line", "hbar"} => TraceLabels(tr) = Column(rows, "k")

\* the name the wildcard definition gives the series of a group value
WildcardName(g) ==
    IF sdefs[1].name = <<>> THEN FormatS(g)
    ELSE sdefs[1].name \o <<45>> \o FormatS(g)

\* C12: for one series definition with a grouping field and wildcard
\* grouping, the pass emits exactly one trace per distinct value of the
\* grouping field; the trace of a value holds the labels and values of the
\* rows with that value, in scan order, so that every row is in exactly
\* one trace and the traces together hold the rows of the dataset.
C12_WildcardPartitionsDataset ==
    (spc = "done" /\ OneWildcardSeries) =>
        LET groups == {SeriesSource[i].g : i \in DOMAIN SeriesSource}
        IN  /\ Len(straces) = Cardinality(groups)
            /\ \A g \in groups :
                  Cardinality({i \in DOMAIN straces :
                      /\ straces[i].name = WildcardName(g)
                      /\ HoldsRows(straces[i], RowsOfGroup(g))}) = 1

\* C12 witness: three rows with three values of the grouping field gave
\* three traces
C12_Witness ==
    /\ spc = "done" /\ OneWildcardSeries
    /\ Len(SeriesSource) = 3
    /\ Len(straces) = 3

\* C13: the traces the series pass returns are ordered by (declaration
\* index of their definition, then display name), on every run, also when
\* the definitions reference different datasets.
C13_TracesOrderedByIndexThenName ==
    spc = "done" =>
        \A i, j \in DOMAIN straces :
            i < j =>
                \/ straces[i].order < straces[j].order
                \/ /\ straces[i].order = straces[j].order
                   /\ LexLess(straces[i].name, straces[j].name)

\* the columns of a registered dataset, and what it is for a definition to
\* resolve: its dataset is registered and has the fields the definition reads
Columns(n) == IF n \in DOMAIN freg THEN DOMAIN freg[n].data ELSE {}
SeriesResolves(d) == {"k", "v"} \subseteq Columns(d.dataset)
ScalarResolves(d) ==
    /\ d.value \in Columns(d.dataset)
    /\ d.deltaDataset # "" => d.deltaValue \in Columns(d.deltaDataset)
TableResolves(d) == {"k", "g", "v"} \subseteq Columns(d.dataset)
NamesUnknownDataSet ==
    \/ \E i \in DOMAIN fdef.series : fdef.series[i].dataset \notin DOMAIN freg
    \/ \E i \in DOMAIN fdef.scalars : fdef.scalars[i].dataset \notin DOMAIN freg
    \/ \E i \in DOMAIN fdef.tables : fdef.tables[i].dataset \notin DOMAIN freg
TraceNamed(traces, name) == \E i \in DOMAIN traces : traces[i].name = name

\* C14: when a series, scalar or table definition names a dataset that is
\* not in the registry and the generation succeeds, every other definition
\* whose dataset and fields resolve has its trace in the figure.
C14_UnknownDataSetSkipsOnlyThatDefinition ==
    (fpc = "done" /\ fresult = "ok" /\ NamesUnknownDataSet) =>
        /\ \A i \in DOMAIN fdef.series :
               SeriesResolves(fdef.series[i]) =>
                   TraceNamed(ftraces.series, fdef.series[i].name)
        /\ \A i \in DOMAIN fdef.scalars :
               ScalarResolves(fdef.scalars[i]) =>
                   TraceNamed(ftraces.scalars, fdef.scalars[i].name)
        /\ \A i \in DOMAIN fdef.tables :
               TableResolves(fdef.tables[i]) =>
                   TraceNamed(ftraces.tables, fdef.tables[i].name)

\* the same, for the definitions whose scalars are on a dataset that no
\* series reads
C14_HoldsWhenNoSeriesReadTheScalarDataSet ==
    (\A i \in DOMAIN fdef.scalars : \A j \in DOMAIN fdef.series :
        fdef.scalars[i].dataset # fdef.series[j].dataset)
        => C14_UnknownDataSetSkipsOnlyThatDefinition

\* the first row of a registered dataset has the field
FirstRowHas(n, f) == n \in DOMAIN freg /\ f \in DOMAIN freg[n].data
\* the scalar pass read a first row from the dataset: Next returned true
FirstRowRead(n) ==
    /\ n \in DOMAIN fsrc /\ fsrc[n].rows # <<>>
    /\ \A j \in DOMAIN fdef.series : fdef.series[j].dataset # n
    /\ \A j \in DOMAIN fdef.computed : \A k \in DOMAIN fdef.computed[j].refs :
           fdef.computed[j].refs[k] # n
\* a required field of the scalar is missing from the first row that was read
MissesField(d) ==
    \/ FirstRowRead(d.dataset) /\ ~FirstRowHas(d.dataset, d.value)
    \/ /\ d.deltaDataset # "" /\ FirstRowRead(d.deltaDataset)
       /\ ~FirstRowHas(d.deltaDataset, d.deltaValue)

\* C15: once the scalar pass is over, a scalar whose value field (or delta
\* field) is missing from the first row of its dataset has no indicator
\* in the figure.
C15_MissingFieldEmitsNoIndicator ==
    fpc = "tables" =>
        \A i \in DOMAIN fdef.scalars :
            MissesField(fdef.scalars[i]) =>
                ~TraceNamed(ftraces.scalars, fdef.scalars[i].name)

\* the other half: a scalar whose fields are present in first rows that
\* were read is emitted, whatever the other scalars miss
C15_OtherScalarsStillEmitted ==
    fpc = "tables" =>
        \A i \in DOMAIN fdef.scalars :
            LET d == fdef.scalars[i]
            IN  (/\ FirstRowRead(d.dataset) /\ FirstRowHas(d.dataset, d.value)
                 /\ d.deltaDataset # "" =>
                        /\ FirstRowRead(d.deltaDataset)
                        /\ FirstRowHas(d.deltaDataset, d.deltaValue))
                => TraceNamed(ftraces.scalars, d.name)

\* the datasets each pass iterates to the end, or reads a first row from
DeriveReads ==
    {fdef.computed[j].refs[k] : j \in {i \in DOMAIN fdef.computed :
         /\ fdef.computed[i].function = "diff"
         /\ Len(fdef.computed[i].refs) = 2},
       k \in 1..2}
SeriesReads == {fdef.series[j].dataset : j \in DOMAIN fdef.series} \cap DOMAIN fsrc
ScalarReads == {fdef.scalars[j].dataset : j \in DOMAIN fdef.scalars} \cap DOMAIN fsrc
TableReads == {fdef.tables[j].dataset : j \in DOMAIN fdef.tables} \cap DOMAIN fsrc
\* Next returned false on dataset n in the scalar pass, and Err is non-nil
ScalarPassMetErr(n) ==
    /\ n \in ScalarReads /\ fsrc[n].err
    /\ fsrc[n].rows = <<>> \/ n \in SeriesReads \/ n \in DeriveReads

\* C16: a generation in which the iteration of a dataset ended in error
\* during a derive, the series pass, the scalar pass or the table pass
\* does not end with a document.
C16_IterationErrorFailsGeneration ==
    (/\ fpc = "done"
     /\ \E n \in DOMAIN fsrc :
            \/ fsrc[n].err /\ n \in DeriveReads \cup SeriesReads \cup TableReads
            \/ ScalarPassMetErr(n))
        => fresult # "ok"

\* the same without the scalar pass: an iteration error in a derive, the
\* series pass or the table pass fails the generation
C16_HoldsForDeriveSeriesAndTables ==
    (/\ fpc = "done"
     /\ \E n \in DOMAIN fsrc :
            fsrc[n].err /\ n \in DeriveReads \cup SeriesReads \cup TableReads)
        => fresult # "ok"

\* a computed definition that is reached with its references registered
\* and whose function is diff
MalformedArity ==
    \E i \in DOMAIN fdef.computed :
        /\ fdef.computed[i].function = "diff"
        /\ Len(fdef.computed[i].refs) # 2

\* C17: a generation whose computed definition does not have exactly two
\* dataset references ends with a configuration error: it neither crashes
\* nor produces a document.
C17_MalformedArityIsConfigurationError ==
    (fpc = "done" /\ MalformedArity /\ fresult # "cancelled") => fresult = "error"

\* with three references the length check is reached and the error returned
C17_ThreeReferencesAreAnError ==
    (/\ fpc = "done" /\ fresult # "cancelled"
     /\ \E i \in DOMAIN fdef.computed :
            fdef.computed[i].function = "diff" /\ Len(fdef.computed[i].refs) > 2)
        => fresult = "error"

\* two rows of the source dataset carry the same (x label, y label) pair
DuplicateCell(n) ==
    \E i, j \in DOMAIN fsrc[n].rows :
        /\ i < j
        /\ fsrc[n].rows[i].k = fsrc[n].rows[j].k
        /\ fsrc[n].rows[i].g = fsrc[n].rows[j].g
\* the definitions of the tables whose dataset is registered
KnownTables == {i \in DOMAIN fdef.tables : fdef.tables[i].dataset \in DOMAIN fsrc}
IndexIn(seq, x) == CHOOSE i \in DOMAIN seq : seq[i] = x
\* the heatmap has, for every row of its dataset, the row's value in the
\* cell of the row's labels
EveryRowInItsCell(tr, rows) ==
    \A i \in DOMAIN rows :
        /\ InSeq(tr.x, rows[i].k)
        /\ InSeq(tr.y, rows[i].g)
        /\ tr.z[IndexIn(tr.y, rows[i].g)][IndexIn(tr.x, rows[i].k)] = rows[i].v

\* C18: a generation with a table whose dataset has two rows with the same
\* (x label, y label) pair ends without a document and without table
\* traces; and in every document each row's value is in its cell, so no
\* recorded cell was overwritten.
C18_DuplicateCellFailsGeneration ==
    fpc = "done" =>
        /\ (\E i \in KnownTables : DuplicateCell(fdef.tables[i].dataset))
               => fresult # "ok" /\ ftraces.tables = <<>>
        /\ fresult = "ok" =>
               \A i \in KnownTables : \A j \in DOMAIN ftraces.tables :
                   ftraces.tables[j].name = fdef.tables[i].name =>
                       EveryRowInItsCell(ftraces.tables[j],
                                         fsrc[fdef.tables[i].dataset].rows)

\* the table pass met a duplicate cell after the series pass had emitted
\* its traces, with no iteration error on any dataset
C18_Witness ==
    /\ fpc = "done" /\ fresult = "error"
    /\ \A n \in DOMAIN fsrc : ~fsrc[n].err
    /\ ftraces.series # <<>>
    /\ \E i \in KnownTables :
           /\ DuplicateCell(fdef.tables[i].dataset)
           /\ \E r1, r2 \in DOMAIN fsrc[fdef.tables[i].dataset].rows :
                  /\ fsrc[fdef.tables[i].dataset].rows[r1].k
                         = fsrc[fdef.tables[i].dataset].rows[r2].k
                  /\ fsrc[fdef.tables[i].dataset].rows[r1].g
                         = fsrc[fdef.tables[i].dataset].rows[r2].g
                  /\ fsrc[fdef.tables[i].dataset].rows[r1].v
                         # fsrc[fdef.tables[i].dataset].rows[r2].v

\* the outcome of the pool initialisation, once it has run
InitFailed == ponce = "done" /\ ppool = "nil"
InitSucceeded == ponce = "done" /\ ppool = "pool"
Returned(c) == cpc[c] = "returned"

\* C19: the pool initialisation runs at most once; after it failed every
\* call returns the initialisation error and has not acquired a connection;
\* after it succeeded a call that returns an error has first tried to
\* acquire a connection.
C19_InitOnceAndOutcomeFixed ==
    /\ pinits <= 1
    /\ \A c \in Calls :
           Returned(c) =>
               /\ InitFailed => cret[c] = perr /\ perr \in InitErrors /\ ~cacq[c]
               /\ (InitSucceeded /\ cret[c] # "dataset") => cacq[c]

\* the part about a failed initialisation: at most one attempt, and every
\* call returns its error without acquiring a connection
C19_InitAtMostOnceAndFailureReplayed ==
    /\ pinits <= 1
    /\ \A c \in Calls :
           (Returned(c) /\ InitFailed) =>
               cret[c] = perr /\ perr \in InitErrors /\ ~cacq[c]

\* the accesses to the fields of the source that the next step of a call
\* performs
WritesField(c, f) ==
    \/ cpc[c] = "init" /\ f \in {"err", "pool"}
    \/ cpc[c] = "store" /\ f = "err"
ReadsField(c, f) ==
    \/ cpc[c] = "check" /\ f = "err"
    \/ cpc[c] = "acquire" /\ f = "pool"
\* two calls are about to access the same field, one of them writing, with
\* nothing ordering the two accesses
Races(c1, c2) ==
    \E f \in {"err", "pool"} :
        WritesField(c1, f) /\ (ReadsField(c2, f) \/ WritesField(c2, f))

\* C20: in no interleaving are two calls about to access the same field of
\* the source, one of them writing, without synchronisation.
C20_NoUnsynchronizedFieldAccess ==
    \A c1, c2 \in Calls : c1 # c2 => ~Races(c1, c2)

\* the accesses made inside poolOnce.Do race with nothing
C20_InitialisationIsSynchronized ==
    \A c1, c2 \in Calls : (c1 # c2 /\ cpc[c1] = "init") => ~Races(c1, c2)

\* the join keys of the rows are pairwise different as texts
UniqueKeys(rows) ==
    \A i, j \in 1..Len(rows) :
        stringify(rows[i].k) = stringify(rows[j].k) => i = j
\* the cursor of a registered dataset stands after its last row
ReadToEnd(n) == dataSets[n].cursor = Len(srcRows[n])

\* C26: after a derive both inputs have been read from the first row to the
\* last, and a derive of a dataset with itself, its keys unique, has one
\* output row per row of the dataset.
C26_DeriveScansBothSidesFromStart ==
    (Derived /\ gpc = "series") =>
        /\ ReadToEnd(pd.computed[1]) /\ ReadToEnd(pd.computed[2])
        /\ (pd.computed[1] = pd.computed[2] /\ UniqueKeys(LeftSource)) =>
               NumRows(dataSets[ComputedName]) = Len(LeftSource)

\* for two different datasets both are read to the end and every left row
\* is joined
C26_HoldsForDistinctDataSets ==
    (Derived /\ gpc = "series" /\ pd.computed[1] # pd.computed[2]) =>
        /\ ReadToEnd(pd.computed[1]) /\ ReadToEnd(pd.computed[2])
        /\ Len(JoinRows(LeftSource, RightSource)) = NumRows(dataSets[ComputedName])

\* a definition with a grouping field and a fixed grouping value
FixedGroup(d) == d.groupField # "" /\ d.groupValue # "*"
\* the rows of the definition's dataset whose grouping-field value has the
\* grouping value as its canonical text
RowsMatching(d) ==
    SelectSeq(AllRows(sreg[d.dataset]),
              LAMBDA row : stringify(row[d.groupField]) = d.groupValue)

\* C27: a series definition with a fixed grouping value keeps exactly the
\* rows whose grouping-field value has that text: its trace holds their
\* labels and values in scan order, and it has no trace when there is none.
C27_FixedGroupKeepsRowsByText ==
    spc = "done" =>
        \A i \in DOMAIN sdefs :
            (FixedGroup(sdefs[i]) /\ sdefs[i].dataset \in DOMAIN sreg) =>
                LET kept == RowsMatching(sdefs[i])
                    mine == {j \in DOMAIN straces : straces[j].name = sdefs[i].name}
                IN  IF kept = <<>> THEN mine = {}
                    ELSE /\ Cardinality(mine) = 1
                         /\ \A j \in mine : HoldsRows(straces[j], kept)

\* the same for datasets whose grouping field holds strings only
C27_HoldsForStringFields ==
    (\A n \in DOMAIN sreg : \A i \in 1..NumRows(sreg[n]) :
        sreg[n].data["g"][i].t = "string")
        => C27_FixedGroupKeepsRowsByText

\* the display name a definition gives a row, NoName for a row it filters out
NameFor(d, row) ==
    IF d.groupField = "" THEN d.name
    ELSE IF d.groupValue = "*"
    THEN IF d.name # <<>> THEN d.name \o <<45>> \o FormatS(row[d.groupField])
         ELSE FormatS(row[d.groupField])
    ELSE IF row[d.groupField] # StrV(d.groupValue) THEN NoName
    ELSE d.name
\* the rows a definition contributes under a display name
RowsUnder(d, name) ==
    SelectSeq(AllRows(sreg[d.dataset]), LAMBDA row : NameFor(d, row) = name)
\* the trace is the series of definition d under the trace's name
IsSeriesOf(tr, d) ==
    /\ tr.order = d.order /\ tr.type = d.type
    /\ HoldsRows(tr, RowsUnder(d, tr.name))

\* C29: every trace of the series pass is the series of exactly one
\* definition, with that definition's type, and every definition has a
\* trace for each display name it gives some row.
C29_OneDefinitionPerTrace ==
    spc = "done" =>
        /\ \A j \in DOMAIN straces :
               Cardinality({i \in DOMAIN sdefs :
                   sdefs[i].dataset \in DOMAIN sreg /\ IsSeriesOf(straces[j], sdefs[i])}) = 1
        /\ \A i \in DOMAIN sdefs :
               sdefs[i].dataset \in DOMAIN sreg =>
                   \A r \in DOMAIN AllRows(sreg[sdefs[i].dataset]) :
                       LET name == NameFor(sdefs[i], AllRows(sreg[sdefs[i].dataset])[r])
                       IN  name # NoName =>
                               \E j \in DOMAIN straces :
                                   /\ straces[j].name = name
                                   /\ IsSeriesOf(straces[j], sdefs[i])

\* the same for definitions whose names differ
C29_HoldsForDistinctNames ==
    (\A i, j \in DOMAIN sdefs : sdefs[i].name = sdefs[j].name => i = j)
        => C29_OneDefinitionPerTrace

\* the value of a field in the first row of a registered dataset
FirstRowValue(n, f) == freg[n].data[f][1]
IsNumber(v) == v.t \in {"int", "int64", "float64"}

\* C28: the value of every indicator is the number in the scalar's value
\* field in the first row of its dataset, for the int, int64 and float64
\* representations alike.
C28_ScalarRendersFirstRowNumber ==
    fpc = "tables" =>
        \A i \in DOMAIN fdef.scalars : \A j \in DOMAIN ftraces.scalars :
            LET d == fdef.scalars[i]
            IN  (/\ ftraces.scalars[j].name = d.name
                 /\ FirstRowHas(d.dataset, d.value)
                 /\ IsNumber(FirstRowValue(d.dataset, d.value)))
                => ftraces.scalars[j].value = FirstRowValue(d.dataset, d.value).n

\* the same for first rows that hold int64 and float64 values
C28_HoldsForInt64AndFloat64 ==
    (\A n \in DOMAIN freg : \A f \in DOMAIN freg[n].data :
        FirstRowValue(n, f).t # "int")
        => C28_ScalarRendersFirstRowNumber

\* the indicator is the one of definition d, a scalar with a delta
IsDeltaTraceOf(tr, d) == tr.name = d.name /\ d.deltaDataset # ""

\* C25: the indicator of a scalar with a delta has the number in the delta
\* field of the first row of the delta dataset as its reference, the color
\* resolved from increaseColor for an increase and the color resolved from
\* decreaseColor for a decrease.
C25_DeltaReferenceAndColors ==
    fpc = "tables" =>
        \A i \in DOMAIN fdef.scalars : \A j \in DOMAIN ftraces.scalars :
            LET d == fdef.scalars[i]
                tr == ftraces.scalars[j]
            IN  IsDeltaTraceOf(tr, d) =>
                    /\ tr.mode = "number+delta"
                    /\ tr.increasing = MaybeLookupColor(d.increaseColor)
                    /\ tr.decreasing = MaybeLookupColor(d.decreaseColor)
                    /\ (/\ FirstRowHas(d.deltaDataset, d.deltaValue)
                        /\ IsNumber(FirstRowValue(d.deltaDataset, d.deltaValue)))
                           => tr.reference = FirstRowValue(d.deltaDataset, d.deltaValue).n

\* the colors alone: never swapped, whatever the reference
C25_ColorsNeverSwapped ==
    fpc = "tables" =>
        \A i \in DOMAIN fdef.scalars : \A j \in DOMAIN ftraces.scalars :
            LET d == fdef.scalars[i]
                tr == ftraces.scalars[j]
            IN  IsDeltaTraceOf(tr, d) =>
                    /\ tr.increasing = MaybeLookupColor(d.increaseColor)
                    /\ tr.decreasing = MaybeLookupColor(d.decreaseColor)

\* a colored delta indicator was emitted
C25_ColoredDeltaEmitted ==
    /\ fpc = "tables"
    /\ \E j \in DOMAIN ftraces.scalars :
           /\ ftraces.scalars[j].increasing = "#00ff00"
           /\ ftraces.scalars[j].decreasing = "#aa0000"
           /\ ftraces.scalars[j].reference = 2

(***************************************************************************)
(* SpecBatch: processPlotDefs for one variant.  The main goroutine starts  *)
(* one task per definition file in an errgroup with SetLimit(concurrency)  *)
(* and then waits; the tasks run the worker concurrently and share the     *)
(* group's context, which the first task error cancels.                    *)
(***************************************************************************)
MaxFiles == 2

DefFiles == 1..MaxFiles

\* the values of the --concurrency flag of the model
Concurrencies == {-1, 0, 1, 2}

\* the number of checkpoints of a generation: its declared datasets and
\* its computed datasets
CheckpointCounts == {0, 2}

\* what os.Lstat of the dated file finds: no file, a file modified before
\* the definition file, one not modified before it, or another error
LstatOutcomes == {"notexist", "older", "notolder", "error"}

NoErr == [file |-> 0, kind |-> "nil"]
TaskErr(f, kind) == [file |-> f, kind |-> kind]

\* Lstat by lstat outcome: the result of Organizer.IsStaleOrMissing
StaleOrMissing(lstat) ==
    CASE lstat = "notexist" -> [stale |-> TRUE, err |-> FALSE]
      [] lstat = "error" -> [stale |-> FALSE, err |-> TRUE]
      [] lstat = "older" -> [stale |-> TRUE, err |-> FALSE]
      [] OTHER -> [stale |-> FALSE, err |-> FALSE]

\* Batch: validate forces the concurrency to 1
EffectiveConcurrency == IF bvalidate THEN 1 ELSE bconc

\* the tasks that hold a token of the group's semaphore
Running == {f \in DefFiles : wpc[f] \notin {"idle", "returned"}}

\* errgroup: errOnce keeps the error of the first task that returns one
GroupErr(err, e) == IF err = NoErr THEN e ELSE err

InitBatch ==
    /\ bconc \in Concurrencies
    /\ bvalidate \in BOOLEAN
    /\ bforce \in BOOLEAN
    /\ bmain = "go"
    /\ bnext = 1
    /\ bret = "none"
    /\ berr = NoErr
    /\ bcancel = FALSE
    /\ bfails = <<>>
    /\ wpc = [f \in DefFiles |-> "idle"]
    /\ wres = [f \in DefFiles |-> "none"]
    /\ wstat = [f \in DefFiles |-> "none"]
    /\ wleft = [f \in DefFiles |-> 0]
    /\ wdone = [f \in DefFiles |-> 0]
    /\ wwrote = [f \in DefFiles |-> FALSE]
    /\ InitIdleDiff
    /\ InitIdlePath
    /\ InitIdleOrg
    /\ InitIdleData
    /\ InitIdleGen
    /\ InitIdleRun
    /\ InitIdleSeries
    /\ InitIdleFig
    /\ InitIdlePg
    /\ InitIdleBeat

\* the return of a task function: nil, or an error, which the group keeps
\* if it is the first and which cancels the shared context
TaskReturns(f, res) ==
    /\ wpc' = [wpc EXCEPT ![f] = "returned"]
    /\ wres' = [wres EXCEPT ![f] = res]
    /\ UNCHANGED <<berr, bcancel, bfails>>

TaskFails(f, kind) ==
    /\ wpc' = [wpc EXCEPT ![f] = "returned"]
    /\ wres' = [wres EXCEPT ![f] = kind]
    /\ berr' = GroupErr(berr, TaskErr(f, kind))
    /\ bcancel' = TRUE
    /\ bfails' = Append(bfails, f)

\* grp.Go for the next file: waits for a token when the limit is not
\* negative, then starts the task
Go ==
    /\ bmain = "go"
    /\ EffectiveConcurrency < 0 \/ Cardinality(Running) < EffectiveConcurrency
    /\ wpc' = [wpc EXCEPT ![bnext] = "prep"]
    /\ bnext' = bnext + 1
    /\ bmain' = IF bnext = MaxFiles THEN "wait" ELSE "go"
    /\ UNCHANGED <<bconc, bvalidate, bforce, bret, berr, bcancel, bfails,
                   wres, wstat, wleft, wdone, wwrote>>
    /\ UNCHANGED <<baseVars, runVars, seriesVars, figVars, pgVars, beatVars>>

\* grp.Wait returns when every task has returned, and Batch returns the
\* group's error
Wait ==
    /\ bmain = "wait"
    /\ \A f \in DefFiles : wpc[f] = "returned"
    /\ bmain' = "returned"
    /\ bret' = berr
    /\ bcancel' = TRUE
    /\ UNCHANGED <<bconc, bvalidate, bforce, bnext, berr, bfails,
                   wpc, wres, wstat, wleft, wdone, wwrote>>
    /\ UNCHANGED <<baseVars, runVars, seriesVars, figVars, pgVars, beatVars>>

\* the task up to the decision: the definition is read and parsed, the
\* dated file stat'ed; validate prints and returns, a plot that need not
\* be written is skipped
Prep(f) ==
    /\ wpc[f] = "prep"
    /\ \E readOk \in BOOLEAN, lstat \in LstatOutcomes, n \in CheckpointCounts :
           LET isMissingOrStale == StaleOrMissing(lstat).stale
               shouldWrite == bforce \/ isMissingOrStale
           IN  IF ~readOk
               THEN TaskFails(f, "read") /\ UNCHANGED <<wstat, wleft>>
               ELSE /\ wstat' = [wstat EXCEPT ![f] = lstat]
                    /\ IF bvalidate
                       THEN TaskReturns(f, "validated") /\ UNCHANGED wleft
                       ELSE IF ~shouldWrite
                       THEN TaskReturns(f, "skipped") /\ UNCHANGED wleft
                       ELSE /\ wpc' = [wpc EXCEPT ![f] = "gen"]
                            /\ wleft' = [wleft EXCEPT ![f] = n]
                            /\ UNCHANGED <<wres, berr, bcancel, bfails>>
    /\ UNCHANGED <<bconc, bvalidate, bforce, bmain, bnext, bret, wdone, wwrote>>
    /\ UNCHANGED <<baseVars, runVars, seriesVars, figVars, pgVars, beatVars>>

\* a Checkpoint that does not look at the context
Checkpoint_Blind(f) ==
    /\ wpc[f] = "gen"
    /\ wleft[f] > 0
    /\ wpc' = [wpc EXCEPT ![f] = "fetch"]
    /\ UNCHANGED <<wres, berr, bcancel, bfails>>
    /\ UNCHANGED <<bconc, bvalidate, bforce, bmain, bnext, bret,
                   wstat, wleft, wdone, wwrote>>
    /\ UNCHANGED <<baseVars, runVars, seriesVars, figVars, pgVars, beatVars>>

\* generateFig before a fetch or a derive: select on ctx.Done()
Checkpoint(f) ==
    /\ wpc[f] = "gen"
    /\ wleft[f] > 0
    /\ IF bcancel
       THEN TaskFails(f, "cancelled")
       ELSE /\ wpc' = [wpc EXCEPT ![f] = "fetch"]
            /\ UNCHANGED <<wres, berr, bcancel, bfails>>
    /\ UNCHANGED <<bconc, bvalidate, bforce, bmain, bnext, bret,
                   wstat, wleft, wdone, wwrote>>
    /\ UNCHANGED <<baseVars, runVars, seriesVars, figVars, pgVars, beatVars>>

\* the fetch of a dataset or the derive of a computed dataset, which runs
\* to its end and may fail
Fetch(f) ==
    /\ wpc[f] = "fetch"
    /\ \E ok \in BOOLEAN :
           IF ok
           THEN /\ wpc' = [wpc EXCEPT ![f] = "gen"]
                /\ wleft' = [wleft EXCEPT ![f] = @ - 1]
                /\ wdone' = [wdone EXCEPT ![f] = @ + 1]
                /\ UNCHANGED <<wres, berr, bcancel, bfails>>
           ELSE TaskFails(f, "fetch") /\ UNCHANGED <<wleft, wdone>>
    /\ UNCHANGED <<bconc, bvalidate, bforce, bmain, bnext, bret, wstat, wwrote>>
    /\ UNCHANGED <<baseVars, runVars, seriesVars, figVars, pgVars, beatVars>>

\* the trace passes of generateFig and the marshalling, which may fail
Passes(f) ==
    /\ wpc[f] = "gen"
    /\ wleft[f] = 0
    /\ \E ok \in BOOLEAN :
           IF ok
           THEN /\ wpc' = [wpc EXCEPT ![f] = "write"]
                /\ UNCHANGED <<wres, berr, bcancel, bfails>>
           ELSE TaskFails(f, "generate")
    /\ UNCHANGED <<bconc, bvalidate, bforce, bmain, bnext, bret,
                   wstat, wleft, wdone, wwrote>>
    /\ UNCHANGED <<baseVars, runVars, seriesVars, figVars, pgVars, beatVars>>

\* org.WritePlot, the first writeOutput: the dated artifact is written, or
\* the task returns the error
Write(f) ==
    /\ wpc[f] = "write"
    /\ \E ok \in BOOLEAN :
           IF ok
           THEN /\ wwrote' = [wwrote EXCEPT ![f] = TRUE]
                /\ wpc' = [wpc EXCEPT ![f] = "glob"]
                /\ UNCHANGED <<wres, berr, bcancel, bfails>>
           ELSE TaskFails(f, "write") /\ UNCHANGED wwrote
    /\ UNCHANGED <<bconc, bvalidate, bforce, bmain, bnext, bret,
                   wstat, wleft, wdone>>
    /\ UNCHANGED <<baseVars, runVars, seriesVars, figVars, pgVars, beatVars>>

\* org.WritePlot, IsLatest: the glob fails and the task returns the error,
\* the plot is not the latest and the task returns nil, or it is
WriteGlob(f) ==
    /\ wpc[f] = "glob"
    /\ \E isLatest \in {"error", "no", "yes"} :
           CASE isLatest = "error" -> TaskFails(f, "write")
             [] isLatest = "no" -> TaskReturns(f, "written")
             [] OTHER -> /\ wpc' = [wpc EXCEPT ![f] = "latest"]
                         /\ UNCHANGED <<wres, berr, bcancel, bfails>>
    /\ UNCHANGED <<bconc, bvalidate, bforce, bmain, bnext, bret,
                   wstat, wleft, wdone, wwrote>>
    /\ UNCHANGED <<baseVars, runVars, seriesVars, figVars, pgVars, beatVars>>

\* org.WritePlot, the second writeOutput: the latest file is written and
\* the task returns nil, or the task returns the error, its dated artifact
\* written
WriteCopy(f) ==
    /\ wpc[f] = "latest"
    /\ \E ok \in BOOLEAN :
           IF ok THEN TaskReturns(f, "written") ELSE TaskFails(f, "write")
    /\ UNCHANGED <<bconc, bvalidate, bforce, bmain, bnext, bret,
                   wstat, wleft, wdone, wwrote>>
    /\ UNCHANGED <<baseVars, runVars, seriesVars, figVars, pgVars, beatVars>>

TaskPrep == \E f \in DefFiles : Prep(f)
TaskCheckpoint == \E f \in DefFiles : Checkpoint(f)
TaskFetch == \E f \in DefFiles : Fetch(f)
TaskPasses == \E f \in DefFiles : Passes(f)
TaskWrite == \E f \in DefFiles : Write(f)
TaskWriteGlob == \E f \in DefFiles : WriteGlob(f)
TaskWriteCopy == \E f \in DefFiles : WriteCopy(f)

NextBatch ==
    \/ Go
    \/ Wait
    \/ TaskPrep
    \/ TaskCheckpoint
    \/ TaskFetch
    \/ TaskPasses
    \/ TaskWrite
    \/ TaskWriteGlob
    \/ TaskWriteCopy

SpecBatch == InitBatch /\ [][NextBatch]_vars

(***************************************************************************)
(* SpecBeat: the heartbeat of one plot generation.  The worker makes the   *)
(* done channel and a ticker, starts the heartbeat goroutine, calls        *)
(* generateFig and closes done when it has returned.  The goroutine        *)
(* selects on the ticker's channel and on done: a tick is logged, a closed *)
(* done ends it, and its deferred t.Stop() stops the ticker.               *)
(***************************************************************************)
MaxTicks == 3

\* how generateFig returns: a figure, an error, or the context's error
FigOutcomes == {"figure", "error", "cancelled"}

InitBeat ==
    /\ hgen = "start"
    /\ hout \in FigOutcomes
    /\ hclosed = 0
    /\ hpc = "none"
    /\ htick = FALSE
    /\ hticks = 0
    /\ hlogs = 0
    /\ InitIdleDiff
    /\ InitIdlePath
    /\ InitIdleOrg
    /\ InitIdleData
    /\ InitIdleGen
    /\ InitIdleRun
    /\ InitIdleSeries
    /\ InitIdleFig
    /\ InitIdlePg
    /\ InitIdleBatch

\* the worker makes done and the ticker and starts the goroutine
StartHeartbeat ==
    /\ hgen = "start"
    /\ hgen' = "generating"
    /\ hpc' = "select"
    /\ UNCHANGED <<hout, hclosed, htick, hticks, hlogs>>
    /\ UNCHANGED <<baseVars, runVars, seriesVars, figVars, pgVars, batchVars>>

\* the ticker fires: t.C holds one tick, a tick that finds it full is
\* dropped; a stopped ticker fires no more
Tick ==
    /\ hpc \in {"select", "logging"}
    /\ hticks < MaxTicks
    /\ hticks' = hticks + 1
    /\ htick' = TRUE
    /\ UNCHANGED <<hgen, hout, hclosed, hpc, hlogs>>
    /\ UNCHANGED <<baseVars, runVars, seriesVars, figVars, pgVars, batchVars>>

\* select takes the case <-t.C
Receive ==
    /\ hpc = "select"
    /\ htick
    /\ htick' = FALSE
    /\ hpc' = "logging"
    /\ UNCHANGED <<hgen, hout, hclosed, hticks, hlogs>>
    /\ UNCHANGED <<baseVars, runVars, seriesVars, figVars, pgVars, batchVars>>

\* slog.Info("still generating plot"), then the loop selects again
Log ==
    /\ hpc = "logging"
    /\ hlogs' = hlogs + 1
    /\ hpc' = "select"
    /\ UNCHANGED <<hgen, hout, hclosed, htick, hticks>>
    /\ UNCHANGED <<baseVars, runVars, seriesVars, figVars, pgVars, batchVars>>

\* select takes the case <-done: the goroutine returns and stops the ticker
Stop ==
    /\ hpc = "select"
    /\ hclosed > 0
    /\ hpc' = "stopped"
    /\ UNCHANGED <<hgen, hout, hclosed, htick, hticks, hlogs>>
    /\ UNCHANGED <<baseVars, runVars, seriesVars, figVars, pgVars, batchVars>>

\* generateFig returns on one of its paths
FigReturns ==
    /\ hgen = "generating"
    /\ hgen' = "returned"
    /\ UNCHANGED <<hout, hclosed, hpc, htick, hticks, hlogs>>
    /\ UNCHANGED <<baseVars, runVars, seriesVars, figVars, pgVars, batchVars>>

\* a worker that closes done only when generateFig returned a figure
CloseDone_OnSuccess ==
    /\ hgen = "returned"
    /\ hgen' = "closed"
    /\ hclosed' = IF hout = "figure" THEN hclosed + 1 ELSE hclosed
    /\ UNCHANGED <<hout, hpc, htick, hticks, hlogs>>
    /\ UNCHANGED <<baseVars, runVars, seriesVars, figVars, pgVars, batchVars>>

\* close(done), the statement after the call of generateFig
CloseDone ==
    /\ hgen = "returned"
    /\ hgen' = "closed"
    /\ hclosed' = hclosed + 1
    /\ UNCHANGED <<hout, hpc, htick, hticks, hlogs>>
    /\ UNCHANGED <<baseVars, runVars, seriesVars, figVars, pgVars, batchVars>>

NextBeat ==
    \/ StartHeartbeat
    \/ Tick
    \/ Receive
    \/ Log
    \/ Stop
    \/ FigReturns
    \/ CloseDone

SpecBeat == InitBeat /\ [][NextBeat]_vars

\* generateFig terminates and the goroutines are scheduled; select chooses
\* among its ready cases at random, so a closed done is taken in the end
FairBeat ==
    /\ WF_vars(FigReturns)
    /\ WF_vars(CloseDone)
    /\ WF_vars(Log)
    /\ SF_vars(Stop)

SpecBeatFair == SpecBeat /\ FairBeat

(***************************************************************************)
(* Claims about the batch.                                                 *)
(***************************************************************************)
Failed(f) == wres[f] \in {"read", "cancelled", "fetch", "generate", "write"}

Succeeded(f) == wres[f] \in {"validated", "skipped", "written"}

\* C23: a task whose Lstat of the dated file failed with an error other
\* than not-exist returns an error; it never returns as validated, skipped
\* or written.
C23_StatFailureIsTheTasksError ==
    \A f \in DefFiles :
        (wpc[f] = "returned" /\ wstat[f] = "error") => Failed(f)

\* C23: what the worker does with the failed Lstat: without force and
\* validate the read definition is skipped and the task returns nil
C23_StatFailureSkipsThePlot ==
    \A f \in DefFiles :
        (wpc[f] = "returned" /\ wstat[f] = "error" /\ wres[f] # "read"
            /\ ~bforce /\ ~bvalidate)
        => wres[f] = "skipped"

\* C22: when the first failure of the batch is a failed WritePlot, no
\* other generation is cut short: none returns the cancellation error.
C22_WriteFailureLeavesOthersAlone ==
    \A f \in DefFiles :
        (bfails # <<>> /\ bfails[1] = f /\ wres[f] = "write")
        => \A g \in DefFiles \ {f} : wres[g] # "cancelled"

\* what processPlotDefs returns when the files of bfails failed in that order
FirstError ==
    IF bfails = <<>> THEN NoErr ELSE TaskErr(bfails[1], wres[bfails[1]])

\* a generation takes its checkpoint in this step
TakesCheckpoint(f) == wpc[f] = "gen" /\ wleft[f] > 0 /\ wpc'[f] # "gen"

\* C21: a task error cancels the shared context and the batch returns the
\* first one; a generation that reaches a checkpoint in a cancelled context
\* returns the cancellation error at once, makes no further fetch or derive
\* and writes no artifact.
C21_FirstErrorCancelsAtCheckpoints ==
    /\ [](bfails # <<>> => bcancel)
    /\ [](bmain = "returned" => bret = FirstError)
    /\ [](\A f \in DefFiles : wres[f] = "cancelled" => ~wwrote[f])
    /\ [][\A f \in DefFiles :
            /\ (bcancel /\ TakesCheckpoint(f))
               => /\ wpc'[f] = "returned"
                  /\ wres'[f] = "cancelled"
            /\ wpc[f] = "returned"
               => /\ wpc'[f] = "returned"
                  /\ wdone'[f] = wdone[f]
                  /\ wwrote'[f] = wwrote[f]]_vars

\* C21: the batch has returned the error of the first failing task, and
\* another generation, which had fetched a dataset, was cut at its next
\* checkpoint
C21_Witness ==
    /\ bmain = "returned"
    /\ Len(bfails) = 2
    /\ bret = TaskErr(bfails[1], wres[bfails[1]])
    /\ wres[bfails[1]] # "cancelled"
    /\ wres[bfails[2]] = "cancelled"
    /\ wdone[bfails[2]] = 1
    /\ ~wwrote[bfails[2]]

\* C30: the batch terminates: until processPlotDefs has returned, the main
\* goroutine or a task can take a step.
C30_BatchTerminates == bmain = "returned" \/ ENABLED NextBatch

\* C30: with validate, or a concurrency other than zero, it does
C30_TerminatesUnlessConcurrencyIsZero ==
    (bvalidate \/ bconc # 0) => (bmain = "returned" \/ ENABLED NextBatch)

(***************************************************************************)
(* Claims about the heartbeat.                                             *)
(***************************************************************************)
\* C24 as stated: on each return path of generateFig done is closed exactly
\* once, then the heartbeat goroutine terminates, and from the close on no
\* progress message is logged.
C24_NoMessageAfterTheSignal ==
    /\ [](hclosed <= 1)
    /\ (hgen = "returned") ~> (hclosed = 1)
    /\ (hclosed = 1) ~> (hpc = "stopped")
    /\ [][hclosed > 0 => hlogs' = hlogs]_vars

\* C24: on each return path of generateFig done is closed exactly once,
\* then the heartbeat goroutine terminates; once it has terminated it stays
\* so and no progress message is logged.
C24_SignalOnceThenHeartbeatStops ==
    /\ [](hclosed <= 1)
    /\ [](hgen = "closed" <=> hclosed = 1)
    /\ (hgen = "returned") ~> (hclosed = 1)
    /\ (hclosed = 1) ~> (hpc = "stopped")
    /\ [][hpc = "stopped" => (hpc' = "stopped" /\ hlogs' = hlogs /\ hticks' = hticks)]_vars

\* C24: a generation that returned the cancellation error has closed done
\* and its heartbeat, which had logged, has terminated
C24_Witness ==
    /\ hout = "cancelled"
    /\ hgen = "closed"
    /\ hclosed = 1
    /\ hpc = "stopped"
    /\ hlogs > 0

====
